---- MODULE Spec2Model ----
(***************************************************************************)
(* Front end of AI LoreCrafter: the generation request (index.ts, api.ts), *)
(* the five Phaser scenes (BootScene, TitleScene, DynamicScene,            *)
(* ObstacleRunScene, ConclusionScene) and the data they pass around.       *)
(*                                                                         *)
(* JavaScript objects are records over string keys; a property that is     *)
(* undefined is a key that is absent.  Leaves are strings.                 *)
(*                                                                         *)
(* Phaser itself is not part of the repository.  The model uses its        *)
(* documented contract: game.scene.start(key, data) starts (or restarts)   *)
(* that scene at once and leaves the others alone; this.scene.start(key,   *)
(* data) queues a stop of the calling scene and a start of the other,      *)
(* which the scene manager carries out at its next update, so the calling  *)
(* scene keeps running, and its buttons keep answering, until then; a      *)
(* scene's init receives the data given to start, or, when none was given, *)
(* the data of the scene's previous start (an empty object for the first); *)
(* a scene instance and its fields live as long as the game; the texture   *)
(* manager is shared by all scenes and keeps the first texture registered  *)
(* under a key.                                                            *)
(***************************************************************************)
EXTENDS Integers, Sequences, FiniteSets, TLC

\* ------------------------------------------------------------------ bounds
\* generation requests issued in one page session
MaxGen == 1
\* narrative fields that may be missing from one response by the conversion specification
MaxMissing == 1
\* scene starts the pointer handlers may request between two updates of the scene manager
MaxPending == 2
\* startGameGeneration calls in one page session when it is also called while a call is in flight
MaxCalls == 2
\* POST /generateGame requests the back end serves in one run
MaxRequests == 2
\* characters of a prompt handed to classify
MaxText == 3

\* ------------------------------------------------------------- data model
Get(o, k) == IF k \in DOMAIN o THEN o[k] ELSE "undefined"

Has(o, k) == k \in DOMAIN o

\* o with property k set to o2[k2] when that is defined (an undefined value is an absent key)
Copy(o, k, o2, k2) == IF k2 \in DOMAIN o2 THEN (k :> o2[k2]) @@ o ELSE o

\* string-valued fields of GameData
StringFields ==
  {"setting", "protagonist_role", "objective", "twist", "hook", "quest_offer",
   "choice_a", "choice_b", "challenge_intro", "climax", "ending_good",
   "ending_bad", "epilogue"}

ImageSlots == {"avatar", "background", "npc"}

\* GameImages: each slot optional
GameImages(tag, slots) == [s \in slots |-> "assets/" \o s \o "_" \o tag \o ".png"]

NPC(tag) == [name |-> "npcname_" \o tag, trait |-> "npctrait_" \o tag]

\* a GameData value: the string fields not in missing, npc unless missing, images if withImages
GameData(tag, missing, withImages, slots) ==
  [f \in ((StringFields \cup {"npc"}) \ missing) \cup (IF withImages THEN {"images"} ELSE {}) |->
     CASE f = "npc" -> NPC(tag)
       [] f = "images" -> GameImages(tag, slots)
       [] OTHER -> f \o "_" \o tag]

PIXEL == ", pixel art style, 8-color palette, 2px outline, flat shading"

SceneIds ==
  {"avatar_creation", "quest_start", "challenge_a", "challenge_b", "good_ending", "bad_ending"}

SceneTypes == {"avatar", "dialogue", "obstacle_run", "conclusion"}

\* convertToSceneStructure throws a TypeError when it reads a property of undefined
convertThrows(data) == ~Has(data, "game_data") \/ ~Has(data.game_data, "npc")

\* fault injection for C17: avatarScene whose next_scene skips the dialogue
avatarScene_toChallenge(gameData) ==
  [scene_id |-> "avatar_creation",
   scene_type |-> "avatar",
   title |-> "Create Your Hero",
   description |-> "You are a " \o Get(gameData, "protagonist_role") \o " in " \o Get(gameData, "setting"),
   avatar_prompt |-> "A " \o Get(gameData, "protagonist_role") \o " character in " \o Get(gameData, "setting") \o PIXEL,
   next_scene |-> "challenge_a"]

avatarScene(gameData) ==
  [scene_id |-> "avatar_creation",
   scene_type |-> "avatar",
   title |-> "Create Your Hero",
   description |-> "You are a " \o Get(gameData, "protagonist_role") \o " in " \o Get(gameData, "setting"),
   avatar_prompt |-> "A " \o Get(gameData, "protagonist_role") \o " character in " \o Get(gameData, "setting") \o PIXEL,
   next_scene |-> "quest_start"]

\* fault injection for C7: questScene with a second option that leads to no scene of the mapping
questScene_unknownBranch(gameData) ==
  Copy(Copy(
  [scene_id |-> "quest_start",
   scene_type |-> "dialogue",
   title |-> "The Quest Begins",
   background_prompt |-> Get(gameData, "setting") \o " background scene" \o PIXEL,
   npc |-> Copy([description |-> "A " \o Get(gameData.npc, "trait") \o " character",
                 portrait_prompt |-> Get(gameData.npc, "name") \o ", a " \o Get(gameData.npc, "trait") \o " character, pixel art portrait"],
                "name", gameData.npc, "name"),
   options |-> [i \in {"0", "1"} |->
                 IF i = "0" THEN Copy([next_scene |-> "challenge_a"], "text", gameData, "choice_a")
                            ELSE Copy([next_scene |-> "challenge_c"], "text", gameData, "choice_b")]],
   "description", gameData, "hook"),
   "dialogue_text", gameData, "quest_offer")

questScene(gameData) ==
  Copy(Copy(
  [scene_id |-> "quest_start",
   scene_type |-> "dialogue",
   title |-> "The Quest Begins",
   background_prompt |-> Get(gameData, "setting") \o " background scene" \o PIXEL,
   npc |-> Copy([description |-> "A " \o Get(gameData.npc, "trait") \o " character",
                 portrait_prompt |-> Get(gameData.npc, "name") \o ", a " \o Get(gameData.npc, "trait") \o " character, pixel art portrait"],
                "name", gameData.npc, "name"),
   options |-> [i \in {"0", "1"} |->
                 IF i = "0" THEN Copy([next_scene |-> "challenge_a"], "text", gameData, "choice_a")
                            ELSE Copy([next_scene |-> "challenge_b"], "text", gameData, "choice_b")]],
   "description", gameData, "hook"),
   "dialogue_text", gameData, "quest_offer")

\* fault injection for C1: challengeScene with a failure_scene that is no key of scenes
challengeScene_unknownFailure(gameData) ==
  Copy(
  [scene_id |-> "challenge_a",
   scene_type |-> "obstacle_run",
   title |-> "The Challenge",
   background_prompt |-> Get(gameData, "setting") \o " challenge area" \o PIXEL,
   obstacle_prompt |-> "Obstacles in " \o Get(gameData, "setting") \o PIXEL,
   difficulty |-> "3",
   success_scene |-> "good_ending",
   failure_scene |-> "game_over"],
   "description", gameData, "challenge_intro")

challengeScene(gameData) ==
  Copy(
  [scene_id |-> "challenge_a",
   scene_type |-> "obstacle_run",
   title |-> "The Challenge",
   background_prompt |-> Get(gameData, "setting") \o " challenge area" \o PIXEL,
   obstacle_prompt |-> "Obstacles in " \o Get(gameData, "setting") \o PIXEL,
   difficulty |-> "3",
   success_scene |-> "good_ending",
   failure_scene |-> "bad_ending"],
   "description", gameData, "challenge_intro")

\* fault injection for C30: the second challenge ends badly whatever its outcome
challengeSceneB_alwaysBad(gameData) ==
  Copy(
  [scene_id |-> "challenge_b",
   scene_type |-> "obstacle_run",
   title |-> "The Alternative Path",
   background_prompt |-> Get(gameData, "setting") \o " alternative path" \o PIXEL,
   obstacle_prompt |-> "Different obstacles in " \o Get(gameData, "setting") \o PIXEL,
   difficulty |-> "2",
   success_scene |-> "bad_ending",
   failure_scene |-> "bad_ending"],
   "description", gameData, "challenge_intro")

challengeSceneB(gameData) ==
  Copy(
  [scene_id |-> "challenge_b",
   scene_type |-> "obstacle_run",
   title |-> "The Alternative Path",
   background_prompt |-> Get(gameData, "setting") \o " alternative path" \o PIXEL,
   obstacle_prompt |-> "Different obstacles in " \o Get(gameData, "setting") \o PIXEL,
   difficulty |-> "2",
   success_scene |-> "good_ending",
   failure_scene |-> "bad_ending"],
   "description", gameData, "challenge_intro")

goodEnding(gameData) ==
  Copy(
  [scene_id |-> "good_ending",
   scene_type |-> "conclusion",
   title |-> "Victory!",
   background_prompt |-> "Victory scene in " \o Get(gameData, "setting") \o PIXEL,
   conclusion_text |-> Get(gameData, "climax") \o "\n\n" \o Get(gameData, "ending_good") \o "\n\n" \o Get(gameData, "epilogue"),
   is_good_ending |-> "true"],
   "description", gameData, "ending_good")

badEnding(gameData) ==
  Copy(
  [scene_id |-> "bad_ending",
   scene_type |-> "conclusion",
   title |-> "Defeat",
   background_prompt |-> "Defeat scene in " \o Get(gameData, "setting") \o PIXEL,
   conclusion_text |-> Get(gameData, "climax") \o "\n\n" \o Get(gameData, "ending_bad"),
   is_good_ending |-> "false"],
   "description", gameData, "ending_bad")

\* the value convertToSceneStructure(data.game_data, data.prompt) returns when it does not throw
convertToSceneStructure(data) ==
  LET gameData == data.game_data
      scenes == [id \in SceneIds |->
                   CASE id = "avatar_creation" -> avatarScene(gameData)
                     [] id = "quest_start" -> questScene(gameData)
                     [] id = "challenge_a" -> challengeScene(gameData)
                     [] id = "challenge_b" -> challengeSceneB(gameData)
                     [] id = "good_ending" -> goodEnding(gameData)
                     [] id = "bad_ending" -> badEnding(gameData)]
      scene_dsl == [scenes |-> scenes,
                    initial_scene |-> "avatar_creation",
                    game_title |-> Get(gameData, "protagonist_role") \o " of " \o Get(gameData, "setting"),
                    game_description |-> Get(gameData, "objective") \o " - " \o Get(gameData, "hook")]
      legacyResponse ==
        [k \in {"scene_dsl", "game_data"} \cup (IF Has(data, "prompt") THEN {"prompt"} ELSE {}) |->
           CASE k = "scene_dsl" -> scene_dsl
             [] k = "game_data" -> gameData
             [] OTHER -> data.prompt]
  IN legacyResponse

isScene(obj) == Has(obj, "scene_type") /\ obj.scene_type \in SceneTypes

\* --------------------------------------------------------------- JSON text
\* JSON text is held as its tree of members: an object is written member by
\* member, a leaf as a token.  A property whose value is undefined is not written.
IsObject(path) ==
  /\ path[Len(path)] \in {"scene_dsl", "scenes", "game_data", "npc", "images", "options", "0", "1"} \cup SceneIds
  /\ ~(Len(path) >= 2 /\ path[Len(path) - 1] = "images")

RECURSIVE Write(_, _)
Write(o, path) ==
  [k \in DOMAIN o |->
     IF IsObject(Append(path, k)) THEN Write(o[k], Append(path, k)) ELSE <<"token", o[k]>>]

JSONstringify(o) == Write(o, <<>>)

RECURSIVE Read(_, _)
Read(text, path) ==
  [k \in DOMAIN text |->
     IF IsObject(Append(path, k)) THEN Read(text[k], Append(path, k)) ELSE text[k][2]]

JSONparse(text) == Read(text, <<>>)

\* ------------------------------------------------------- objects by reference
\* Game objects are never modified after they are built, and the scenes hand
\* them on by reference.  The state holds references; a reference names the
\* response body the object was converted from and how many times it went
\* through JSON.stringify and JSON.parse since.  Obj gives the object.
Variants == {"full", "noimages", "partial", "nohook", "nonpc", "nodata"}

\* the response body behind a reference: complete, without an images record,
\* with a partial images record, without hook, without npc, without game_data
ResponseBody(r) ==
  CASE r.v = "full" -> [game_data |-> GameData(r.i, {}, TRUE, ImageSlots), prompt |-> r.prompt]
    [] r.v = "noimages" -> [game_data |-> GameData(r.i, {}, FALSE, {}), prompt |-> r.prompt]
    [] r.v = "partial" -> [game_data |-> GameData(r.i, {}, TRUE, {"background", "npc"}), prompt |-> r.prompt]
    [] r.v = "nohook" -> [game_data |-> GameData(r.i, {"hook"}, TRUE, ImageSlots), prompt |-> r.prompt]
    [] r.v = "nonpc" -> [game_data |-> GameData(r.i, {"npc"}, TRUE, ImageSlots), prompt |-> r.prompt]
    [] OTHER -> [prompt |-> r.prompt]

RECURSIVE RoundTrips(_, _)
RoundTrips(o, n) == IF n = 0 THEN o ELSE RoundTrips(JSONparse(JSONstringify(o)), n - 1)

Obj(r) == RoundTrips(convertToSceneStructure(ResponseBody(r)), r.trips)

\* JSON.stringify(Obj(r)) is held as [json |-> r]; JSON.parse of that text is a new object
stringified(r) == [json |-> r]

parsed(text) == [text.json EXCEPT !.trips = @ + 1]

\* ------------------------------------------------------------------ state
Scenes == {"BootScene", "TitleScene", "DynamicScene", "ObstacleRunScene", "ConclusionScene"}

PlayScenes == {"DynamicScene", "ObstacleRunScene", "ConclusionScene"}

TextureKeys ==
  {"avatar", "background", "npc", "bg_challenge_a", "bg_challenge_b",
   "obstacle_challenge_a", "obstacle_challenge_b"}

VARIABLES
  game,            \* window.game exists
  reqs,            \* startGameGeneration calls: [st, prompt, gameData, at]; at orders the answers
  localStorage,    \* the 'gameData' item: <<>> when absent, else <<text>>
  dom,             \* prompt-container, loading-screen and error-message
  phase,           \* per scene: off, preload (Phaser loader before create), loading (create awaits loadAll), ready, error
  gameData,        \* per scene: this.gameData, <<>> for null, else <<object>>
  currentSceneId,  \* per playthrough scene: this.currentSceneId
  successSceneId,  \* ObstacleRunScene.successSceneId
  failureSceneId,  \* ObstacleRunScene.failureSceneId
  isGameOver,      \* ObstacleRunScene.isGameOver
  assetLoader,     \* per scene: <<>> for null, else <<assets map key -> [url] or [prompt]>>
  textures,        \* the game's texture manager: key -> url it was loaded from, "" when absent
  buttons,         \* per scene: the interactive buttons it has created
  display,         \* per playthrough scene: the images (texture key -> url) and texts it has added
  queue,           \* the scene manager's queued operations: [op, key, data]
  settings,        \* per scene: the data of its last start (scene.sys.settings.data)
  served,          \* the asset server answers image requests in this session
  last             \* the handler that ran last, its argument, and the scenes an update started

\* input and result of the specifications of the pure functions below, the
\* state of the back end in its own specification, and one AssetLoader with
\* the loader and the caches of its scene in its own specification
VARIABLES cin, cout, backend, loader

cvars == <<cin, cout, backend, loader>>

wvars == <<localStorage, dom, phase, gameData, currentSceneId, successSceneId,
           failureSceneId, isGameOver, assetLoader, textures, buttons, display, queue, settings>>

mvars == <<game, reqs, served, wvars, last>>

\* the state the scene code reads and writes, as one value
World ==
  [localStorage |-> localStorage, dom |-> dom, phase |-> phase, gameData |-> gameData,
   currentSceneId |-> currentSceneId, successSceneId |-> successSceneId,
   failureSceneId |-> failureSceneId, isGameOver |-> isGameOver,
   assetLoader |-> assetLoader, textures |-> textures, buttons |-> buttons,
   display |-> display, queue |-> queue, settings |-> settings, entered |-> <<>>]

Becomes(world) ==
  \E w \in {world} :
    /\ localStorage' = w.localStorage
    /\ dom' = w.dom
    /\ phase' = w.phase
    /\ gameData' = w.gameData
    /\ currentSceneId' = w.currentSceneId
    /\ successSceneId' = w.successSceneId
    /\ failureSceneId' = w.failureSceneId
    /\ isGameOver' = w.isGameOver
    /\ assetLoader' = w.assetLoader
    /\ textures' = w.textures
    /\ buttons' = w.buttons
    /\ display' = w.display
    /\ queue' = w.queue
    /\ settings' = w.settings

NoData == <<>>

\* ------------------------------------------------------------ AssetLoader
queueAssetWithURL(w, s, key, url) ==
  [w EXCEPT !.assetLoader[s] = <<(key :> [url |-> url]) @@ w.assetLoader[s][1]>>]

queueAsset(w, s, key, prompt) ==
  [w EXCEPT !.assetLoader[s] = <<(key :> [prompt |-> prompt]) @@ w.assetLoader[s][1]>>]

generateImage(prompt) ==
  "https://via.placeholder.com/400x400?text=" \o "encodeURIComponent(" \o prompt \o ")"

\* the url loadAll hands to the Phaser loader for an asset
assetURL(asset) == IF Has(asset, "url") THEN asset.url ELSE generateImage(asset.prompt)

\* loadAll resolved: the files in ok were fetched and decoded; a key that
\* already has a texture keeps it
loadAll(w, s, ok) ==
  LET assets == w.assetLoader[s][1]
  IN [w EXCEPT !.textures =
        [k \in TextureKeys |->
           IF k \in DOMAIN assets /\ k \in ok /\ w.textures[k] = ""
             THEN assetURL(assets[k]) ELSE w.textures[k]]]

\* images of the preserved game data, <<>> when there are none
imagesOf(g) ==
  IF Has(g, "game_data") /\ Has(g.game_data, "images") THEN <<g.game_data.images>> ELSE <<>>

\* queue key under the url of a slot when the image record has that slot
queueSlot(w, s, key, images, slot) ==
  IF Has(images, slot) THEN queueAssetWithURL(w, s, key, images[slot]) ELSE w

\* ---------------------------------------------------------- Phaser scenes
\* what a scene that has added nothing shows
Blank == [images |-> <<>>, text |-> <<>>]

\* Phaser shuts scene s down: its display list and input handlers are destroyed
shutdown(w, s) ==
  [w EXCEPT !.phase[s] = "off", !.buttons[s] = {},
            !.display = [p \in PlayScenes |-> IF p = s THEN Blank ELSE @[p]]]

\* this.add.image for each of keys that has a texture (this.textures.exists)
addImages(w, keys) == [k \in {t \in keys : w.textures[t] # ""} |-> w.textures[k]]

\* this.scene.start(key, data) called in scene s
scene_start(w, s, key, data) ==
  [w EXCEPT !.queue = @ \o <<[op |-> "stop", key |-> s, data |-> NoData],
                              [op |-> "start", key |-> key, data |-> data]>>]

showPromptScreen(w) ==
  [w EXCEPT !.dom = [@ EXCEPT !.prompt = TRUE, !.error = "", !.errorShown = FALSE],
            !.localStorage = <<>>,
            !.gameData["TitleScene"] = <<>>]

showError(w, message) ==
  [w EXCEPT !.dom = [prompt |-> TRUE, loading |-> FALSE, error |-> message, errorShown |-> TRUE]]

TitleScene_init(w, data) ==
  IF Has(data, "gameData") THEN [w EXCEPT !.gameData["TitleScene"] = <<data.gameData>>]
  ELSE IF w.localStorage # <<>>
    THEN [w EXCEPT !.gameData["TitleScene"] = <<parsed(w.localStorage[1])>>]
    ELSE w

TitleScene_create(w) ==
  [w EXCEPT !.phase["TitleScene"] = "ready",
            !.buttons["TitleScene"] = {[label |-> "Begin Adventure", next |-> ""],
                                       [label |-> "restart", next |-> ""]}]

\* Phaser starts TitleScene: init, then create (its preload queues nothing)
startTitleScene(w, data) == TitleScene_create(TitleScene_init(shutdown(w, "TitleScene"), data))

\* -- BootScene
BootScene_init(w, data) ==
  LET w1 == IF Has(data, "gameData")
              THEN [w EXCEPT !.gameData["BootScene"] = <<data.gameData>>,
                             !.localStorage = <<stringified(data.gameData)>>]
            ELSE IF w.localStorage # <<>>
              THEN [w EXCEPT !.gameData["BootScene"] = <<parsed(w.localStorage[1])>>]
              ELSE w
  IN [w1 EXCEPT !.assetLoader["BootScene"] = <<NoData>>]

\* Phaser starts BootScene: init, preload (two ui images go to the Phaser
\* loader), and create once they are loaded
startBootScene(w, data) ==
  [BootScene_init(shutdown(w, "BootScene"), data) EXCEPT !.phase["BootScene"] = "preload"]

queueAssetsForScene(w, sceneId) ==
  IF w.assetLoader["BootScene"] = <<>> THEN w
  ELSE LET images == imagesOf(Obj(w.gameData["BootScene"][1]))
       IN IF images # <<>>
            THEN queueSlot(queueSlot(queueSlot(w, "BootScene", "avatar", images[1], "avatar"),
                                     "BootScene", "background", images[1], "background"),
                           "BootScene", "npc", images[1], "npc")
            ELSE w

\* create up to the await of loadAll
BootScene_create(w) ==
  IF w.gameData["BootScene"] # <<>> /\ w.assetLoader["BootScene"] # <<>>
    THEN LET g == Obj(w.gameData["BootScene"][1])
         IN IF ~Has(g, "scene_dsl")
              THEN showError([w EXCEPT !.phase["BootScene"] = "error"],
                             "Failed to load game assets. Please try again.")
              ELSE [queueAssetsForScene(w, Get(g.scene_dsl, "initial_scene"))
                      EXCEPT !.phase["BootScene"] = "loading"]
    ELSE scene_start([w EXCEPT !.phase["BootScene"] = "ready"], "BootScene", "TitleScene", NoData)

\* create after the await of loadAll
BootScene_created(w) ==
  scene_start([w EXCEPT !.phase["BootScene"] = "ready"], "BootScene", "TitleScene",
              [gameData |-> w.gameData["BootScene"][1]])

\* the init of the three playthrough scenes logs data.gameData.game_data before
\* it assigns anything: without gameData that read throws a TypeError
init_throws(data) == ~Has(data, "gameData")

\* init has thrown in scene s: its fields keep the values of its earlier run,
\* and Phaser goes on to neither preload nor create
thrown(w, s) == [w EXCEPT !.phase[s] = "init"]

\* -- DynamicScene
DynamicScene_init(w, data) ==
  [w EXCEPT !.currentSceneId["DynamicScene"] = Get(data, "sceneId"),
            !.gameData["DynamicScene"] = IF Has(data, "gameData") THEN <<data.gameData>> ELSE <<>>,
            !.assetLoader["DynamicScene"] = <<NoData>>]

\* the guard shared by preload and create of the playthrough scenes
unusable(w, s) ==
  w.gameData[s] = <<>> \/ w.currentSceneId[s] \in {"", "undefined"} \/ w.assetLoader[s] = <<>>

\* fault injection for C10: preload queues the three images whether the record has them or not
DynamicScene_preload_queuesAll(w) ==
  IF unusable(w, "DynamicScene") THEN w
  ELSE LET images == imagesOf(Obj(w.gameData["DynamicScene"][1]))
           url(slot) == IF images # <<>> THEN Get(images[1], slot) ELSE "undefined"
       IN queueAssetWithURL(queueAssetWithURL(queueAssetWithURL(w, "DynamicScene", "avatar", url("avatar")),
                                              "DynamicScene", "background", url("background")),
                            "DynamicScene", "npc", url("npc"))

DynamicScene_preload(w) ==
  IF unusable(w, "DynamicScene") THEN w
  ELSE LET images == imagesOf(Obj(w.gameData["DynamicScene"][1]))
       IN IF images # <<>>
            THEN queueSlot(queueSlot(queueSlot(w, "DynamicScene", "avatar", images[1], "avatar"),
                                     "DynamicScene", "background", images[1], "background"),
                           "DynamicScene", "npc", images[1], "npc")
            ELSE w

\* fault injection for C13: create renders the avatar scene before it awaits loadAll
DynamicScene_create_rendersFirst(w) ==
  IF unusable(w, "DynamicScene")
    THEN scene_start([w EXCEPT !.phase["DynamicScene"] = "ready"], "DynamicScene", "TitleScene", NoData)
  ELSE [w EXCEPT !.phase["DynamicScene"] = "loading",
                 !.buttons["DynamicScene"] = {[label |-> "Continue", next |-> "quest_start"]}]

\* create up to the await of loadAll
DynamicScene_create(w) ==
  IF unusable(w, "DynamicScene")
    THEN scene_start([w EXCEPT !.phase["DynamicScene"] = "ready"], "DynamicScene", "TitleScene", NoData)
  ELSE [w EXCEPT !.phase["DynamicScene"] = "loading"]

startDynamicScene(w, data) ==
  IF init_throws(data) THEN thrown(shutdown(w, "DynamicScene"), "DynamicScene")
  ELSE DynamicScene_create(DynamicScene_preload(DynamicScene_init(shutdown(w, "DynamicScene"), data)))

\* fault injection for C4: the Continue button of the avatar scene skips quest_start
renderAvatarScene_skipsQuest(w) ==
  [w EXCEPT !.buttons["DynamicScene"] = {[label |-> "Continue", next |-> "challenge_a"]}]

renderAvatarScene(w) ==
  LET g == Obj(w.gameData["DynamicScene"][1])
  IN [w EXCEPT !.display["DynamicScene"] =
                  [images |-> addImages(w, {"background", "avatar"}),
                   text |-> <<"Create Your Hero">> \o
                            (IF Has(g, "game_data")
                               THEN <<"You are a " \o Get(g.game_data, "protagonist_role") \o " in "
                                        \o Get(g.game_data, "setting")>>
                               ELSE <<>>)],
               !.buttons["DynamicScene"] = {[label |-> "Continue", next |-> "quest_start"]}]

\* fault injection for C3: the two choice buttons with their targets swapped
renderDialogueScene_swapped(w) ==
  IF Has(Obj(w.gameData["DynamicScene"][1]), "game_data")
    THEN [w EXCEPT !.buttons["DynamicScene"] = {[label |-> "choice_a", next |-> "challenge_b"],
                                                [label |-> "choice_b", next |-> "challenge_a"]}]
    ELSE w

renderDialogueScene(w) ==
  LET g == Obj(w.gameData["DynamicScene"][1])
  IN IF Has(g, "game_data")
       THEN [w EXCEPT !.display["DynamicScene"] =
                        [images |-> addImages(w, {"background", "npc"}),
                         text |-> <<"The Quest Begins">> \o
                                  (IF w.textures["npc"] # "" THEN <<Get(g.game_data.npc, "name")>> ELSE <<>>) \o
                                  <<Get(g.game_data, "quest_offer")>>],
                      !.buttons["DynamicScene"] = {[label |-> "choice_a", next |-> "challenge_a"],
                                                   [label |-> "choice_b", next |-> "challenge_b"]}]
       ELSE [w EXCEPT !.display["DynamicScene"] =
                        [images |-> addImages(w, {"background"}), text |-> <<"The Quest Begins">>]]

\* fault injection for C27: the default scene's Continue leads back to the avatar scene
renderDefaultScene_toAvatar(w) ==
  [w EXCEPT !.display["DynamicScene"] =
               [images |-> addImages(w, {"background"}), text |-> <<"Adventure Continues">>],
            !.buttons["DynamicScene"] = {[label |-> "Continue", next |-> "avatar_creation"]}]

renderDefaultScene(w) ==
  [w EXCEPT !.display["DynamicScene"] =
               [images |-> addImages(w, {"background"}), text |-> <<"Adventure Continues">>],
            !.buttons["DynamicScene"] = {[label |-> "Continue", next |-> "quest_start"]}]

\* create after the await of loadAll
DynamicScene_created(w) ==
  LET r == [w EXCEPT !.phase["DynamicScene"] = "ready"]
  IN CASE w.currentSceneId["DynamicScene"] = "avatar_creation" -> renderAvatarScene(r)
       [] w.currentSceneId["DynamicScene"] = "quest_start" -> renderDialogueScene(r)
       [] OTHER -> renderDefaultScene(r)

\* -- ConclusionScene
\* fault injection for C29: init keeps a JSON copy of the game it is handed
ConclusionScene_init_copies(w, data) ==
  [w EXCEPT !.currentSceneId["ConclusionScene"] = Get(data, "sceneId"),
            !.gameData["ConclusionScene"] =
               IF Has(data, "gameData") THEN <<parsed(stringified(data.gameData))>> ELSE <<>>,
            !.assetLoader["ConclusionScene"] = <<NoData>>]

ConclusionScene_init(w, data) ==
  [w EXCEPT !.currentSceneId["ConclusionScene"] = Get(data, "sceneId"),
            !.gameData["ConclusionScene"] = IF Has(data, "gameData") THEN <<data.gameData>> ELSE <<>>,
            !.assetLoader["ConclusionScene"] = <<NoData>>]

\* fault injection for C12: preload asks for a new background from the scene's prompt
ConclusionScene_preload_byPrompt(w) ==
  IF unusable(w, "ConclusionScene") THEN w
  ELSE LET g == Obj(w.gameData["ConclusionScene"][1])
           images == imagesOf(g)
           id == w.currentSceneId["ConclusionScene"]
           w1 == IF Has(g.scene_dsl.scenes, id)
                   THEN queueAsset(w, "ConclusionScene", "background",
                                   Get(g.scene_dsl.scenes[id], "background_prompt"))
                   ELSE w
       IN IF images # <<>>
            THEN queueSlot(w1, "ConclusionScene", "avatar", images[1], "avatar")
            ELSE w1

ConclusionScene_preload(w) ==
  IF unusable(w, "ConclusionScene") THEN w
  ELSE LET images == imagesOf(Obj(w.gameData["ConclusionScene"][1]))
       IN IF images # <<>>
            THEN queueSlot(queueSlot(w, "ConclusionScene", "background", images[1], "background"),
                           "ConclusionScene", "avatar", images[1], "avatar")
            ELSE w

ConclusionScene_create(w) ==
  IF unusable(w, "ConclusionScene")
    THEN scene_start([w EXCEPT !.phase["ConclusionScene"] = "ready"], "ConclusionScene", "TitleScene", NoData)
  ELSE [w EXCEPT !.phase["ConclusionScene"] = "loading"]

startConclusionScene(w, data) ==
  IF init_throws(data) THEN thrown(shutdown(w, "ConclusionScene"), "ConclusionScene")
  ELSE ConclusionScene_create(ConclusionScene_preload(ConclusionScene_init(shutdown(w, "ConclusionScene"), data)))

\* fault injection for C5: Play Again starts the playthrough scene instead of the title
createRestartButton_replays(w) ==
  [w EXCEPT !.buttons["ConclusionScene"] = {[label |-> "Play Again", next |-> "DynamicScene"]}]

createRestartButton(w) ==
  [w EXCEPT !.buttons["ConclusionScene"] = {[label |-> "Play Again", next |-> "TitleScene"]}]

\* fault injection for C18: the conclusion shows the avatar in both endings
renderConclusionScene_alwaysAvatar(w) ==
  createRestartButton(
    [w EXCEPT !.display["ConclusionScene"] =
       [images |-> addImages(w, {"background", "avatar"}),
        text |-> <<IF w.currentSceneId["ConclusionScene"] = "good_ending" THEN "Victory!" ELSE "Defeat">>]])

renderConclusionScene(w) ==
  LET g == Obj(w.gameData["ConclusionScene"][1])
      isGoodEnding == w.currentSceneId["ConclusionScene"] = "good_ending"
  IN createRestartButton(
       [w EXCEPT !.display["ConclusionScene"] =
          [images |-> addImages(w, {"background"} \cup (IF isGoodEnding THEN {"avatar"} ELSE {})),
           text |-> <<IF isGoodEnding THEN "Victory!" ELSE "Defeat">> \o
                    (IF Has(g, "game_data")
                       THEN <<IF isGoodEnding
                                THEN Get(g.game_data, "climax") \o "\n\n" \o Get(g.game_data, "ending_good")
                                       \o "\n\n" \o Get(g.game_data, "epilogue")
                                ELSE Get(g.game_data, "climax") \o "\n\n" \o Get(g.game_data, "ending_bad")>>
                       ELSE <<>>)]])

ConclusionScene_created(w) == renderConclusionScene([w EXCEPT !.phase["ConclusionScene"] = "ready"])

\* -- ObstacleRunScene
ObstacleRunScene_init(w, data) ==
  [w EXCEPT !.currentSceneId["ObstacleRunScene"] = Get(data, "sceneId"),
            !.gameData["ObstacleRunScene"] = IF Has(data, "gameData") THEN <<data.gameData>> ELSE <<>>,
            !.isGameOver = FALSE,
            !.assetLoader["ObstacleRunScene"] = <<NoData>>]

\* sceneDSL.scenes[this.currentSceneId] is an obstacle_run record
obstacleRecord(w) ==
  LET g == Obj(w.gameData["ObstacleRunScene"][1])
      id == w.currentSceneId["ObstacleRunScene"]
  IN IF Has(g.scene_dsl.scenes, id) /\ Get(g.scene_dsl.scenes[id], "scene_type") = "obstacle_run"
       THEN <<g.scene_dsl.scenes[id]>> ELSE <<>>

\* fault injection for C8: preload reads success_scene and failure_scene only when the game has images
ObstacleRunScene_preload_idsWithImages(w) ==
  IF unusable(w, "ObstacleRunScene") THEN w
  ELSE IF obstacleRecord(w) = <<>> THEN w
  ELSE LET scene == obstacleRecord(w)[1]
           id == w.currentSceneId["ObstacleRunScene"]
           w1 == [w EXCEPT !.successSceneId = Get(scene, "success_scene"),
                           !.failureSceneId = Get(scene, "failure_scene")]
           images == imagesOf(Obj(w.gameData["ObstacleRunScene"][1]))
       IN IF images # <<>>
            THEN queueSlot(queueSlot(w1, "ObstacleRunScene", "bg_" \o id, images[1], "background"),
                           "ObstacleRunScene", "obstacle_" \o id, images[1], "avatar")
            ELSE queueAsset(queueAsset(w, "ObstacleRunScene", "bg_" \o id, Get(scene, "background_prompt")),
                            "ObstacleRunScene", "obstacle_" \o id, Get(scene, "obstacle_prompt"))

ObstacleRunScene_preload(w) ==
  IF unusable(w, "ObstacleRunScene") THEN w
  ELSE IF obstacleRecord(w) = <<>> THEN w
  ELSE LET scene == obstacleRecord(w)[1]
           id == w.currentSceneId["ObstacleRunScene"]
           w1 == [w EXCEPT !.successSceneId = Get(scene, "success_scene"),
                           !.failureSceneId = Get(scene, "failure_scene")]
           images == imagesOf(Obj(w.gameData["ObstacleRunScene"][1]))
       IN IF images # <<>>
            THEN queueSlot(queueSlot(w1, "ObstacleRunScene", "bg_" \o id, images[1], "background"),
                           "ObstacleRunScene", "obstacle_" \o id, images[1], "avatar")
            ELSE queueAsset(queueAsset(w1, "ObstacleRunScene", "bg_" \o id, Get(scene, "background_prompt")),
                            "ObstacleRunScene", "obstacle_" \o id, Get(scene, "obstacle_prompt"))

ObstacleRunScene_create(w) ==
  IF unusable(w, "ObstacleRunScene") \/ obstacleRecord(w) = <<>>
    THEN scene_start([w EXCEPT !.phase["ObstacleRunScene"] = "ready"], "ObstacleRunScene", "TitleScene", NoData)
  ELSE [w EXCEPT !.phase["ObstacleRunScene"] = "loading"]

startObstacleRunScene(w, data) ==
  IF init_throws(data) THEN thrown(shutdown(w, "ObstacleRunScene"), "ObstacleRunScene")
  ELSE ObstacleRunScene_create(ObstacleRunScene_preload(ObstacleRunScene_init(shutdown(w, "ObstacleRunScene"), data)))

\* the Success and Failure buttons read this.successSceneId / this.failureSceneId when pressed
ObstacleRunScene_created(w) ==
  [w EXCEPT !.phase["ObstacleRunScene"] = "ready",
            !.display["ObstacleRunScene"] =
               [images |-> addImages(w, {"bg_" \o w.currentSceneId["ObstacleRunScene"],
                                         "obstacle_" \o w.currentSceneId["ObstacleRunScene"]}),
                text |-> <<Get(obstacleRecord(w)[1], "title"), Get(obstacleRecord(w)[1], "description")>>],
            !.buttons["ObstacleRunScene"] = {[label |-> "Success", next |-> "this.successSceneId"],
                                             [label |-> "Failure", next |-> "this.failureSceneId"]}]

\* -- navigation
\* the scene manager starts scene key: a running scene is shut down first,
\* and a start without data hands init the data of the previous start
startScene(w, key, data) ==
  LET d == IF DOMAIN data = {} THEN w.settings[key] ELSE data
      w1 == [w EXCEPT !.settings[key] = d]
  IN CASE key = "DynamicScene" -> startDynamicScene(w1, d)
       [] key = "ObstacleRunScene" -> startObstacleRunScene(w1, d)
       [] key = "ConclusionScene" -> startConclusionScene(w1, d)
       [] key = "TitleScene" -> startTitleScene(w1, d)
       [] OTHER -> startBootScene(w1, d)

DynamicScene_route(sceneId) ==
  CASE sceneId \in {"avatar_creation", "quest_start"} -> "DynamicScene"
    [] sceneId \in {"challenge_a", "challenge_b"} -> "ObstacleRunScene"
    [] sceneId \in {"good_ending", "bad_ending"} -> "ConclusionScene"
    [] OTHER -> "DynamicScene"

DynamicScene_navigateToScene(w, sceneId) ==
  IF w.gameData["DynamicScene"] = <<>> THEN w
  ELSE scene_start(w, "DynamicScene", DynamicScene_route(sceneId),
                   [sceneId |-> sceneId, gameData |-> w.gameData["DynamicScene"][1]])

\* fault injection for C28: ObstacleRunScene sends an unknown id to the title scene
ObstacleRunScene_route_unknownToTitle(sceneId) ==
  CASE sceneId \in {"avatar_creation", "quest_start"} -> "DynamicScene"
    [] sceneId \in {"challenge_a", "challenge_b"} -> "ObstacleRunScene"
    [] sceneId \in {"good_ending", "bad_ending"} -> "ConclusionScene"
    [] OTHER -> "TitleScene"

ObstacleRunScene_route(sceneId) ==
  CASE sceneId \in {"avatar_creation", "quest_start"} -> "DynamicScene"
    [] sceneId \in {"challenge_a", "challenge_b"} -> "ObstacleRunScene"
    [] sceneId \in {"good_ending", "bad_ending"} -> "ConclusionScene"
    [] OTHER -> "DynamicScene"

ObstacleRunScene_navigateToScene(w, sceneId) ==
  IF w.gameData["ObstacleRunScene"] = <<>> THEN w
  ELSE scene_start(w, "ObstacleRunScene", ObstacleRunScene_route(sceneId),
                   [sceneId |-> sceneId, gameData |-> w.gameData["ObstacleRunScene"][1]])

\* the scene manager's update carries out the queued operations in order;
\* entered lists the scenes it started: the scene, the scene id its init
\* stored, and the scene that asked (the one stopped just before)
RECURSIVE processQueue(_, _)
processQueue(w, by) ==
  IF w.queue = <<>> THEN w
  ELSE LET e == Head(w.queue)
           w1 == [w EXCEPT !.queue = Tail(@)]
       IN IF e.op = "stop" THEN processQueue(shutdown(w1, e.key), e.key)
          ELSE LET w2 == startScene(w1, e.key, e.data)
                   id == IF e.key \in PlayScenes THEN w2.currentSceneId[e.key] ELSE ""
               IN processQueue([w2 EXCEPT !.entered = Append(@, [key |-> e.key, id |-> id, by |-> by])], "")

\* -- TitleScene handlers
startAdventure(w) ==
  IF w.gameData["TitleScene"] # <<>>
    THEN LET g == w.gameData["TitleScene"][1]
         IN scene_start(w, "TitleScene", "DynamicScene",
                        [sceneId |-> Get(Obj(g).scene_dsl, "initial_scene"), gameData |-> g])
    ELSE showPromptScreen(w)

restartGame(w) == showPromptScreen(w)

\* ------------------------------------------------- generation (index.ts)
Prompts == {"knight"}

FAILED == "Failed to generate game. Please try again."

\* the bodies the backend may answer request i with
Responses(i, p) == {[i |-> ToString(i), v |-> v, prompt |-> p, trips |-> 0] : v \in Variants}

\* the outcome of axios.post: <<>> for a network error or a non-2xx status, else <<body>>
Outcomes(i, p) == {<<>>} \cup {<<d>> : d \in Responses(i, p)}

\* generateGame: <<>> when it throws, else <<the converted object>>
generateGame(outcome) ==
  IF outcome = <<>> THEN <<>>
  ELSE IF convertThrows(ResponseBody(outcome[1])) THEN <<>>
  ELSE <<outcome[1]>>

\* the game a previous page session left in localStorage
StoredGame == [i |-> "0", v |-> "full", prompt |-> "earlier", trips |-> 0]

\* the record of the handler that ran last
Did(op, from, arg) == [op |-> op, from |-> from, arg |-> arg, asked |-> <<>>, entered |-> <<>>]

NoLast == Did("load", "", "")

InitWorld ==
  [localStorage |-> <<>>,
   dom |-> [prompt |-> TRUE, loading |-> FALSE, error |-> "", errorShown |-> FALSE],
   phase |-> [s \in Scenes |-> "off"],
   gameData |-> [s \in Scenes |-> <<>>],
   currentSceneId |-> [s \in PlayScenes |-> ""],
   successSceneId |-> "",
   failureSceneId |-> "",
   isGameOver |-> FALSE,
   assetLoader |-> [s \in Scenes \ {"TitleScene"} |-> <<>>],
   textures |-> [k \in TextureKeys |-> ""],
   buttons |-> [s \in Scenes |-> {}],
   display |-> [s \in PlayScenes |-> Blank],
   queue |-> <<>>,
   settings |-> [s \in Scenes |-> NoData],
   entered |-> <<>>]

\* the page after its load event: new Phaser.Game(config) has started
\* BootScene, or has thrown and window.game is not set
Init ==
  /\ game \in BOOLEAN
  /\ served \in BOOLEAN
  /\ reqs = <<>>
  /\ last = NoLast
  /\ cin = <<>>
  /\ cout = <<>>
  /\ backend = <<>>
  /\ loader = <<>>
  /\ \E stored \in {<<>>, <<stringified(StoredGame)>>} :
       LET w == [InitWorld EXCEPT !.localStorage = stored]
           w0 == IF game THEN startScene(w, "BootScene", NoData) ELSE w
       IN /\ localStorage = w0.localStorage
          /\ dom = w0.dom
          /\ phase = w0.phase
          /\ gameData = w0.gameData
          /\ currentSceneId = w0.currentSceneId
          /\ successSceneId = w0.successSceneId
          /\ failureSceneId = w0.failureSceneId
          /\ isGameOver = w0.isGameOver
          /\ assetLoader = w0.assetLoader
          /\ textures = w0.textures
          /\ buttons = w0.buttons
          /\ display = w0.display
          /\ queue = w0.queue
          /\ settings = w0.settings

\* the submit handler of the prompt form, up to the request of generateGame
Submit(p) ==
  /\ dom.prompt
  /\ Len(reqs) < MaxGen
  /\ p # ""
  /\ reqs' = Append(reqs, [st |-> "posted", prompt |-> p, gameData |-> <<>>, at |-> 0])
  /\ Becomes([World EXCEPT !.dom = [@ EXCEPT !.prompt = FALSE, !.loading = TRUE]])
  /\ last' = Did("Submit", "", p)
  /\ UNCHANGED <<game, served, cvars>>

\* window.startGameGeneration(p) called while an earlier call has not started
\* its game yet: the function is a global and does not look at the page
Call(p) ==
  /\ Len(reqs) < MaxCalls
  /\ \E j \in DOMAIN reqs : reqs[j].st \in {"posted", "timer"}
  /\ p # ""
  /\ reqs' = Append(reqs, [st |-> "posted", prompt |-> p, gameData |-> <<>>, at |-> 0])
  /\ last' = Did("Call", "", p)
  /\ UNCHANGED <<game, served, wvars, cvars>>

\* the answers that have arrived so far
Answered == {j \in DOMAIN reqs : reqs[j].at > 0}

\* startGameGeneration from the answer of generateGame to the setTimeout
startGameGeneration_resolved(i, g) ==
  /\ reqs' = [reqs EXCEPT ![i] = [@ EXCEPT !.st = "timer", !.gameData = <<g>>,
                                           !.at = Cardinality(Answered) + 1]]
  /\ Becomes([World EXCEPT !.localStorage = <<stringified(g)>>])

\* fault injection for C9: the catch block leaves the loading screen as it is
startGameGeneration_catch_keepsLoading(i) ==
  /\ reqs' = [reqs EXCEPT ![i] = [@ EXCEPT !.st = "failed", !.at = Cardinality(Answered) + 1]]
  /\ Becomes([World EXCEPT !.dom = [@ EXCEPT !.prompt = TRUE, !.error = FAILED, !.errorShown = TRUE]])

\* the catch block of startGameGeneration
startGameGeneration_catch(i) ==
  /\ reqs' = [reqs EXCEPT ![i] = [@ EXCEPT !.st = "failed", !.at = Cardinality(Answered) + 1]]
  /\ Becomes([World EXCEPT !.dom = [prompt |-> TRUE, loading |-> FALSE,
                                    error |-> FAILED, errorShown |-> TRUE]])

GenerationSucceeds(i, outcome) ==
  /\ i \in DOMAIN reqs
  /\ reqs[i].st = "posted"
  /\ generateGame(outcome) # <<>>
  /\ startGameGeneration_resolved(i, generateGame(outcome)[1])
  /\ last' = Did("GenerationSucceeds", ToString(i), "")
  /\ UNCHANGED <<game, served, cvars>>

GenerationFails(i, outcome) ==
  /\ i \in DOMAIN reqs
  /\ reqs[i].st = "posted"
  /\ generateGame(outcome) = <<>>
  /\ startGameGeneration_catch(i)
  /\ last' = Did("GenerationFails", ToString(i), IF outcome = <<>> THEN "no response" ELSE outcome[1].v)
  /\ UNCHANGED <<game, served, cvars>>

\* fault injection for C34: the setTimeout callback leaves the loading screen shown
StartGame_keepsLoading(i, created) ==
  /\ i \in DOMAIN reqs
  /\ reqs[i].st = "timer"
  /\ \A j \in DOMAIN reqs : reqs[j].st = "timer" => reqs[j].at >= reqs[i].at
  /\ game \/ created \in BOOLEAN
  /\ ~game \/ created
  /\ reqs' = [reqs EXCEPT ![i] = [@ EXCEPT !.st = "started"]]
  /\ IF game THEN Becomes(startScene(World, "BootScene", [gameData |-> reqs[i].gameData[1]]))
     ELSE IF created THEN Becomes(startScene(World, "BootScene", NoData))
     ELSE Becomes(World)
  /\ game' = (game \/ created)
  /\ last' = Did("StartGame", ToString(i), "")
  /\ UNCHANGED <<served, cvars>>

\* the setTimeout callback of startGameGeneration; created says whether
\* new Phaser.Game(config) returns (it is only called when window.game is unset);
\* the timers all wait 500 ms, so they fire in the order they were set
StartGame(i, created) ==
  /\ i \in DOMAIN reqs
  /\ reqs[i].st = "timer"
  /\ \A j \in DOMAIN reqs : reqs[j].st = "timer" => reqs[j].at >= reqs[i].at
  /\ game \/ created \in BOOLEAN
  /\ ~game \/ created
  /\ reqs' = [reqs EXCEPT ![i] = [@ EXCEPT !.st = "started"]]
  /\ LET w == [World EXCEPT !.dom = [@ EXCEPT !.loading = FALSE]]
     IN IF game THEN Becomes(startScene(w, "BootScene", [gameData |-> reqs[i].gameData[1]]))
        ELSE IF created THEN Becomes(startScene(w, "BootScene", NoData))
        ELSE Becomes(w)
  /\ game' = (game \/ created)
  /\ last' = Did("StartGame", ToString(i), "")
  /\ UNCHANGED <<served, cvars>>

\* ------------------------------------------------------- scene life cycle
BootCreate ==
  /\ phase["BootScene"] = "preload"
  /\ Becomes(BootScene_create(World))
  /\ last' = Did("BootCreate", "", "")
  /\ UNCHANGED <<game, reqs, served, cvars>>

\* the files of a scene's loader that are fetched and decoded
Loadable(s) == {IF served THEN DOMAIN assetLoader[s][1] ELSE {}}

BootLoaded(ok) ==
  /\ phase["BootScene"] = "loading"
  /\ ok \in Loadable("BootScene")
  /\ Becomes(BootScene_created(loadAll(World, "BootScene", ok)))
  /\ last' = Did("BootLoaded", "", "")
  /\ UNCHANGED <<game, reqs, served, cvars>>

DynamicLoaded(ok) ==
  /\ phase["DynamicScene"] = "loading"
  /\ ok \in Loadable("DynamicScene")
  /\ Becomes(DynamicScene_created(loadAll(World, "DynamicScene", ok)))
  /\ last' = Did("DynamicLoaded", currentSceneId["DynamicScene"], "")
  /\ UNCHANGED <<game, reqs, served, cvars>>

ObstacleLoaded(ok) ==
  /\ phase["ObstacleRunScene"] = "loading"
  /\ ok \in Loadable("ObstacleRunScene")
  /\ Becomes(ObstacleRunScene_created(loadAll(World, "ObstacleRunScene", ok)))
  /\ last' = Did("ObstacleLoaded", currentSceneId["ObstacleRunScene"], "")
  /\ UNCHANGED <<game, reqs, served, cvars>>

ConclusionLoaded(ok) ==
  /\ phase["ConclusionScene"] = "loading"
  /\ ok \in Loadable("ConclusionScene")
  /\ Becomes(ConclusionScene_created(loadAll(World, "ConclusionScene", ok)))
  /\ last' = Did("ConclusionLoaded", currentSceneId["ConclusionScene"], "")
  /\ UNCHANGED <<game, reqs, served, cvars>>

\* the starts waiting in the queue q: the scene, the scene id handed to it and
\* the scene that asked (each this.scene.start queues a stop and a start)
Requested(q) ==
  [n \in 1..(Len(q) \div 2) |->
     [key |-> q[2 * n].key,
      id |-> IF q[2 * n].key \in PlayScenes THEN Get(q[2 * n].data, "sceneId") ELSE "",
      by |-> q[2 * n - 1].key]]

\* the next update of the scene manager
Update ==
  /\ queue # <<>>
  /\ Becomes(processQueue(World, ""))
  /\ last' = [Did("Update", "", "") EXCEPT !.asked = Requested(queue),
                                           !.entered = processQueue(World, "").entered]
  /\ UNCHANGED <<game, reqs, served, cvars>>

\* ----------------------------------------------------------- user actions
\* prompt-container and loading-screen cover the whole game container, so
\* the canvas receives a pointer event only while both are hidden
canvasReachable == ~dom.prompt /\ ~dom.loading

\* the buttons of scene s with that label the user can press
Pressed(s, label) ==
  IF canvasReachable /\ Len(queue) < 2 * MaxPending
    THEN {b \in buttons[s] : b.label = label} ELSE {}

BeginAdventure ==
  /\ Pressed("TitleScene", "Begin Adventure") # {}
  /\ Becomes(startAdventure(World))
  /\ last' = Did("Begin Adventure", "TitleScene", "")
  /\ UNCHANGED <<game, reqs, served, cvars>>

\* fault injection for C15: the title's restart also drops the calls that wait for their answer
TitleRestart_aborts ==
  /\ Pressed("TitleScene", "restart") # {}
  /\ Becomes(restartGame(World))
  /\ last' = Did("restart", "TitleScene", "")
  /\ reqs' = [i \in DOMAIN reqs |->
                IF reqs[i].st = "posted" THEN [reqs[i] EXCEPT !.st = "failed"] ELSE reqs[i]]
  /\ UNCHANGED <<game, served, cvars>>

TitleRestart ==
  /\ Pressed("TitleScene", "restart") # {}
  /\ Becomes(restartGame(World))
  /\ last' = Did("restart", "TitleScene", "")
  /\ UNCHANGED <<game, reqs, served, cvars>>

Continue ==
  \E b \in Pressed("DynamicScene", "Continue") :
    /\ Becomes(DynamicScene_navigateToScene(World, b.next))
    /\ last' = Did("Continue", currentSceneId["DynamicScene"], b.next)
    /\ UNCHANGED <<game, reqs, served, cvars>>

Choose(label) ==
  \E b \in Pressed("DynamicScene", label) :
    /\ Becomes(DynamicScene_navigateToScene(World, b.next))
    /\ last' = Did(label, currentSceneId["DynamicScene"], b.next)
    /\ UNCHANGED <<game, reqs, served, cvars>>

Success ==
  /\ Pressed("ObstacleRunScene", "Success") # {}
  /\ Becomes(ObstacleRunScene_navigateToScene(World, successSceneId))
  /\ last' = Did("Success", currentSceneId["ObstacleRunScene"], successSceneId)
  /\ UNCHANGED <<game, reqs, served, cvars>>

Failure ==
  /\ Pressed("ObstacleRunScene", "Failure") # {}
  /\ Becomes(ObstacleRunScene_navigateToScene(World, failureSceneId))
  /\ last' = Did("Failure", currentSceneId["ObstacleRunScene"], failureSceneId)
  /\ UNCHANGED <<game, reqs, served, cvars>>

\* fault injection for C6: Play Again also clears the stored game, as the title's restart does
PlayAgain_clears ==
  \E b \in Pressed("ConclusionScene", "Play Again") :
    /\ Becomes(scene_start([World EXCEPT !.localStorage = <<>>], "ConclusionScene", b.next, NoData))
    /\ last' = Did("Play Again", currentSceneId["ConclusionScene"], b.next)
    /\ UNCHANGED <<game, reqs, served, cvars>>

PlayAgain ==
  \E b \in Pressed("ConclusionScene", "Play Again") :
    /\ Becomes(scene_start(World, "ConclusionScene", b.next, NoData))
    /\ last' = Did("Play Again", currentSceneId["ConclusionScene"], b.next)
    /\ UNCHANGED <<game, reqs, served, cvars>>

Next ==
  \/ \E p \in Prompts : Submit(p)
  \/ \E i \in DOMAIN reqs : \E o \in Outcomes(i, reqs[i].prompt) : GenerationSucceeds(i, o)
  \/ \E i \in DOMAIN reqs : \E o \in Outcomes(i, reqs[i].prompt) : GenerationFails(i, o)
  \/ \E i \in DOMAIN reqs : \E c \in BOOLEAN : StartGame(i, c)
  \/ BootCreate
  \/ \E ok \in SUBSET TextureKeys : BootLoaded(ok)
  \/ \E ok \in SUBSET TextureKeys : DynamicLoaded(ok)
  \/ \E ok \in SUBSET TextureKeys : ObstacleLoaded(ok)
  \/ \E ok \in SUBSET TextureKeys : ConclusionLoaded(ok)
  \/ Update
  \/ BeginAdventure
  \/ TitleRestart
  \/ Continue
  \/ \E l \in {"choice_a", "choice_b"} : Choose(l)
  \/ Success
  \/ Failure
  \/ PlayAgain

vars == <<mvars, cvars>>

Spec == Init /\ [][Next]_vars

\* ---------------------------------------- scenes started from outside
\* window.game is a global: game.scene.start(key, data) can be called on it
\* with any data.  The ids and games such a call may hand over:
EnterIds == {"quest_start", "challenge_a"}

EnterGames == {StoredGame}

EnterData ==
  {NoData}
    \cup {[sceneId |-> id] : id \in EnterIds}
    \cup {[gameData |-> g] : g \in EnterGames}
    \cup {[sceneId |-> id, gameData |-> g] : id \in EnterIds, g \in EnterGames}

\* game.scene.start(key, data) on a playthrough scene; a run enters one
\* of the three scenes, any number of times
Enter(key, data) ==
  /\ game
  /\ Len(queue) < 2 * MaxPending
  /\ \A s \in PlayScenes \ {key} : phase[s] = "off" /\ settings[s] = NoData
  /\ Becomes(startScene(World, key, data))
  /\ last' = Did("Enter", key, Get(data, "sceneId"))
  /\ UNCHANGED <<game, reqs, served, cvars>>

NextEnter ==
  \/ \E key \in PlayScenes : \E data \in EnterData : Enter(key, data)
  \/ BootCreate
  \/ \E ok \in SUBSET TextureKeys : BootLoaded(ok)
  \/ \E ok \in SUBSET TextureKeys : DynamicLoaded(ok)
  \/ \E ok \in SUBSET TextureKeys : ObstacleLoaded(ok)
  \/ \E ok \in SUBSET TextureKeys : ConclusionLoaded(ok)
  \/ Update

SpecEnter == Init /\ [][NextEnter]_vars

\* ------------------------------------------- navigateToScene on any id
\* the ids navigateToScene is applied to: the six of the SceneDSL, a string
\* that is none of them, and the empty string
NavigateIds ==
  {"avatar_creation", "quest_start", "challenge_a", "challenge_b", "good_ending", "bad_ending",
   "nowhere", ""}

GeneratedGame(v) == [i |-> "1", v |-> v, prompt |-> "knight", trips |-> 0]

\* the page after one generation: the BootScene of the page load has started
\* the title without a game, then the prompt was submitted, the answer g was
\* stored, the timer restarted BootScene with g, its images were loaded when
\* the server gives them, and the update has started the title with g
PlayInit ==
  /\ game = TRUE
  /\ served \in BOOLEAN
  /\ reqs = <<[st |-> "started", prompt |-> "knight", gameData |-> <<GeneratedGame("full")>>, at |-> 1]>>
  /\ \E booted \in {processQueue(BootScene_create(startScene(InitWorld, "BootScene", NoData)), "")} :
     \E answered \in {[booted EXCEPT !.localStorage = <<stringified(GeneratedGame("full"))>>,
                                     !.dom = [@ EXCEPT !.prompt = FALSE, !.loading = FALSE],
                                     !.entered = <<>>]} :
     \E created \in {BootScene_create(startScene(answered, "BootScene",
                                                 [gameData |-> GeneratedGame("full")]))} :
     \E loaded \in {BootScene_created(loadAll(created, "BootScene",
                      IF served THEN DOMAIN created.assetLoader["BootScene"][1] ELSE {}))} :
     \E w \in {processQueue(loaded, "")} :
       /\ localStorage = w.localStorage
       /\ dom = w.dom
       /\ phase = w.phase
       /\ gameData = w.gameData
       /\ currentSceneId = w.currentSceneId
       /\ successSceneId = w.successSceneId
       /\ failureSceneId = w.failureSceneId
       /\ isGameOver = w.isGameOver
       /\ assetLoader = w.assetLoader
       /\ textures = w.textures
       /\ buttons = w.buttons
       /\ display = w.display
       /\ queue = w.queue
       /\ settings = w.settings
  /\ last = Did("Update", "", "")
  /\ cin = <<>>
  /\ cout = <<>>
  /\ backend = <<>>
  /\ loader = <<>>

\* this.navigateToScene(id) of scene s, called while s shows its buttons or
\* holds no game
Navigate(s, id) ==
  /\ queue = <<>>
  /\ phase[s] = "ready" \/ gameData[s] = <<>>
  /\ LET w == IF s = "DynamicScene" THEN DynamicScene_navigateToScene(World, id)
                                    ELSE ObstacleRunScene_navigateToScene(World, id)
     IN /\ Becomes(w)
        /\ last' = [Did("navigateToScene", s, id) EXCEPT
                      !.asked = SubSeq(Requested(w.queue), Len(queue) \div 2 + 1, Len(w.queue) \div 2)]
  /\ UNCHANGED <<game, reqs, served, cvars>>

NextNavigate ==
  \/ \E s \in {"DynamicScene", "ObstacleRunScene"} : \E id \in NavigateIds : Navigate(s, id)
  \/ \E ok \in SUBSET TextureKeys : DynamicLoaded(ok)
  \/ \E ok \in SUBSET TextureKeys : ObstacleLoaded(ok)
  \/ \E ok \in SUBSET TextureKeys : ConclusionLoaded(ok)
  \/ Update
  \/ BeginAdventure
  \/ Continue
  \/ \E l \in {"choice_a", "choice_b"} : Choose(l)
  \/ Success
  \/ Failure
  \/ PlayAgain

SpecNavigate == PlayInit /\ [][NextNavigate]_vars

\* ------------------------------------------- a second game in the session
\* the submit handler of the prompt form after the games generated before
SubmitAgain(p) ==
  /\ dom.prompt
  /\ Len(reqs) <= MaxGen
  /\ p # ""
  /\ reqs' = Append(reqs, [st |-> "posted", prompt |-> p, gameData |-> <<>>, at |-> 0])
  /\ Becomes([World EXCEPT !.dom = [@ EXCEPT !.prompt = FALSE, !.loading = TRUE]])
  /\ last' = Did("Submit", "", p)
  /\ UNCHANGED <<game, served, cvars>>

\* the page from the title of the first generated game on: the playthrough,
\* the title's restart and the generation of one more game
NextSecond ==
  \/ \E p \in Prompts : SubmitAgain(p)
  \/ \E i \in DOMAIN reqs : \E o \in Outcomes(i, reqs[i].prompt) : GenerationSucceeds(i, o)
  \/ \E i \in DOMAIN reqs : \E o \in Outcomes(i, reqs[i].prompt) : GenerationFails(i, o)
  \/ \E i \in DOMAIN reqs : \E c \in BOOLEAN : StartGame(i, c)
  \/ BootCreate
  \/ \E ok \in SUBSET TextureKeys : BootLoaded(ok)
  \/ \E ok \in SUBSET TextureKeys : DynamicLoaded(ok)
  \/ \E ok \in SUBSET TextureKeys : ObstacleLoaded(ok)
  \/ \E ok \in SUBSET TextureKeys : ConclusionLoaded(ok)
  \/ Update
  \/ BeginAdventure
  \/ TitleRestart
  \/ Continue
  \/ \E l \in {"choice_a", "choice_b"} : Choose(l)
  \/ Success
  \/ Failure
  \/ PlayAgain

SpecSecond == PlayInit /\ [][NextSecond]_vars

\* ------------------------------- generation with calls that overlap
\* the page with startGameGeneration also called while a call is in flight;
\* the user stays on the title scene
NextConcurrent ==
  \/ \E p \in Prompts : Submit(p)
  \/ \E p \in Prompts : Call(p)
  \/ \E i \in DOMAIN reqs : \E o \in Outcomes(i, reqs[i].prompt) : GenerationSucceeds(i, o)
  \/ \E i \in DOMAIN reqs : \E o \in Outcomes(i, reqs[i].prompt) : GenerationFails(i, o)
  \/ \E i \in DOMAIN reqs : \E c \in BOOLEAN : StartGame(i, c)
  \/ BootCreate
  \/ \E ok \in SUBSET TextureKeys : BootLoaded(ok)
  \/ Update
  \/ TitleRestart

SpecConcurrent == Init /\ [][NextConcurrent]_vars

\* ------------------------------------------- conversion of a response (pure function)
MissingSets == {m \in SUBSET (StringFields \cup {"npc"}) : Cardinality(m) <= MaxMissing}

ConvertInputs ==
  {[prompt |-> "p"]} \cup
  {[game_data |-> GameData("1", m, wi, sl), prompt |-> "p"] :
     m \in MissingSets, wi \in BOOLEAN, sl \in SUBSET ImageSlots}

ConvInit ==
  /\ cin \in ConvertInputs
  /\ cout = <<>>
  /\ backend = <<>>
  /\ loader = <<>>
  /\ game = FALSE
  /\ served = FALSE
  /\ reqs = <<>>
  /\ last = NoLast
  /\ localStorage = InitWorld.localStorage
  /\ dom = InitWorld.dom
  /\ phase = InitWorld.phase
  /\ gameData = InitWorld.gameData
  /\ currentSceneId = InitWorld.currentSceneId
  /\ successSceneId = InitWorld.successSceneId
  /\ failureSceneId = InitWorld.failureSceneId
  /\ isGameOver = InitWorld.isGameOver
  /\ assetLoader = InitWorld.assetLoader
  /\ textures = InitWorld.textures
  /\ buttons = InitWorld.buttons
  /\ display = InitWorld.display
  /\ queue = InitWorld.queue
  /\ settings = InitWorld.settings

Convert ==
  /\ cout = <<>>
  /\ cout' = IF convertThrows(cin) THEN <<"TypeError">> ELSE <<"ok", convertToSceneStructure(cin)>>
  /\ cin' = cin
  /\ backend' = backend
  /\ loader' = loader
  /\ UNCHANGED mvars

ConvNext == Convert

SpecConvert == ConvInit /\ [][ConvNext]_vars

\* ------------------------------------- image pipeline orchestrator (back end)
\* The back end (backend/app/services/image_generator.py) is described by
\* spec.md section 4.4 and 4.5.  The random suffixes of one request differ from
\* each other; whether the precomputed fallback reference is one image for
\* all slots or one per slot is left open there, so both tables are inputs.
Suffixes == {"8bff5423", "4fd22bdd", "0f9ce796", "a1b2c3d4"}

\* the suffixes the exporter draws in the specification of the requests
BackendSuffixes == {"8bff5423", "4fd22bdd"}

FallbackTables ==
  {[s \in ImageSlots |-> "assets/fallback.png"],
   [s \in ImageSlots |-> "assets/fallback_" \o s \o ".png"]}

\* export: the path of the file written, <<>> when the write fails
export(slot, suffix, written) ==
  IF written THEN <<"assets/" \o slot \o "_" \o suffix \o ".png">> ELSE <<>>

ImageInputs ==
  {[prompt |-> "p", failed |-> f, suffix |-> x, fallback |-> fb] :
     f \in SUBSET ImageSlots,
     x \in {y \in [ImageSlots -> Suffixes] : \A a, b \in ImageSlots : a # b => y[a] # y[b]},
     fb \in {<<>>} \cup {<<t>> : t \in FallbackTables}}

\* fault injection for C20: a failed export fails the whole request
generateGameImages_failsWhole(in) ==
  LET exported == [s \in ImageSlots |-> export(s, in.suffix[s], s \notin in.failed)]
  IN IF \E s \in ImageSlots : exported[s] = <<>> THEN <<>>
     ELSE <<[s \in ImageSlots |-> exported[s][1]]>>

\* the GameImageSet of a request, <<>> when the request fails as a whole
generateGameImages(in) ==
  LET exported == [s \in ImageSlots |-> export(s, in.suffix[s], s \notin in.failed)]
  IN IF \A s \in ImageSlots : exported[s] # <<>>
       THEN <<[s \in ImageSlots |-> exported[s][1]]>>
     ELSE IF in.fallback = <<>> THEN <<>>
     ELSE <<[s \in ImageSlots |->
               IF exported[s] # <<>> THEN exported[s][1] ELSE in.fallback[1][s]]>>

ImgInit ==
  /\ cin \in ImageInputs
  /\ cout = <<>>
  /\ backend = <<>>
  /\ loader = <<>>
  /\ game = FALSE
  /\ served = FALSE
  /\ reqs = <<>>
  /\ last = NoLast
  /\ localStorage = InitWorld.localStorage
  /\ dom = InitWorld.dom
  /\ phase = InitWorld.phase
  /\ gameData = InitWorld.gameData
  /\ currentSceneId = InitWorld.currentSceneId
  /\ successSceneId = InitWorld.successSceneId
  /\ failureSceneId = InitWorld.failureSceneId
  /\ isGameOver = InitWorld.isGameOver
  /\ assetLoader = InitWorld.assetLoader
  /\ textures = InitWorld.textures
  /\ buttons = InitWorld.buttons
  /\ display = InitWorld.display
  /\ queue = InitWorld.queue
  /\ settings = InitWorld.settings

GenerateImages ==
  /\ cout = <<>>
  /\ cout' = IF generateGameImages(cin) = <<>> THEN <<"failure">>
             ELSE <<"GameImageSet", generateGameImages(cin)[1]>>
  /\ cin' = cin
  /\ backend' = backend
  /\ loader' = loader
  /\ UNCHANGED mvars

ImgNext == GenerateImages

SpecImages == ImgInit /\ [][ImgNext]_vars

\* ------------------------------------------------- prompt classifier (back end)
\* classify is described by spec.md section 4.1: a case-insensitive
\* substring match against an ordered keyword table per axis, first match
\* wins, a fixed default otherwise.  A text is its sequence of characters;
\* the tables below stand for the classifier's, one short keyword per
\* archetype of the catalog listed in part_000.
CharacterArchetypes == {"knight", "wizard", "archer", "warrior", "rogue"}

EnvironmentArchetypes == {"forest", "dungeon", "desert", "ice", "fantasy"}

Letters == {"k", "w", "a", "r", "f", "d", "K", "W", "x"}

toLowerCase(text) ==
  [i \in DOMAIN text |-> CASE text[i] = "K" -> "k" [] text[i] = "W" -> "w" [] OTHER -> text[i]]

CharacterTable ==
  <<[keyword |-> <<"k">>, id |-> "knight"],
    [keyword |-> <<"w">>, id |-> "wizard"],
    [keyword |-> <<"a", "r">>, id |-> "archer"],
    [keyword |-> <<"w", "a">>, id |-> "warrior"],
    [keyword |-> <<"r">>, id |-> "rogue"]>>

EnvironmentTable ==
  <<[keyword |-> <<"f">>, id |-> "forest"],
    [keyword |-> <<"d">>, id |-> "dungeon"],
    [keyword |-> <<"d", "r">>, id |-> "desert"],
    [keyword |-> <<"x", "k">>, id |-> "ice"]>>

DefaultCharacter == "warrior"

DefaultEnvironment == "fantasy"

\* keyword occurs in text at position i
occursAt(keyword, text, i) ==
  /\ i + Len(keyword) - 1 <= Len(text)
  /\ \A k \in 1..Len(keyword) : text[i + k - 1] = keyword[k]

includes(text, keyword) == \E i \in 1..Len(text) : occursAt(keyword, text, i)

\* fault injection for C23: the table is searched from its last row
RECURSIVE firstMatch_lastRow(_, _, _, _)
firstMatch_lastRow(table, text, n, default) ==
  IF n > Len(table) THEN default
  ELSE IF includes(text, table[Len(table) + 1 - n].keyword) THEN table[Len(table) + 1 - n].id
  ELSE firstMatch_lastRow(table, text, n + 1, default)

\* the rows of the table are tried in order from row n
RECURSIVE firstMatch(_, _, _, _)
firstMatch(table, text, n, default) ==
  IF n > Len(table) THEN default
  ELSE IF includes(text, table[n].keyword) THEN table[n].id
  ELSE firstMatch(table, text, n + 1, default)

classify(prompt) ==
  [character |-> firstMatch(CharacterTable, toLowerCase(prompt), 1, DefaultCharacter),
   environment |-> firstMatch(EnvironmentTable, toLowerCase(prompt), 1, DefaultEnvironment)]

Texts == UNION {[1..n -> Letters] : n \in 0..MaxText}

ClassifyInit ==
  /\ cin \in Texts
  /\ cout = <<>>
  /\ backend = <<>>
  /\ loader = <<>>
  /\ game = FALSE
  /\ served = FALSE
  /\ reqs = <<>>
  /\ last = NoLast
  /\ localStorage = InitWorld.localStorage
  /\ dom = InitWorld.dom
  /\ phase = InitWorld.phase
  /\ gameData = InitWorld.gameData
  /\ currentSceneId = InitWorld.currentSceneId
  /\ successSceneId = InitWorld.successSceneId
  /\ failureSceneId = InitWorld.failureSceneId
  /\ isGameOver = InitWorld.isGameOver
  /\ assetLoader = InitWorld.assetLoader
  /\ textures = InitWorld.textures
  /\ buttons = InitWorld.buttons
  /\ display = InitWorld.display
  /\ queue = InitWorld.queue
  /\ settings = InitWorld.settings

Classify ==
  /\ cout = <<>>
  /\ cout' = <<classify(cin)>>
  /\ cin' = cin
  /\ backend' = backend
  /\ loader' = loader
  /\ UNCHANGED mvars

ClassifyNext == Classify

SpecClassify == ClassifyInit /\ [][ClassifyNext]_vars

\* ------------------------------------------- requests served by the back end
\* One POST /generateGame dispatches the three exports of its request; each
\* writes its file under the asset root and returns the path, or fails; the
\* response is sent once the three have returned (spec.md section 5).  The
\* suffix of a file name is drawn at random and the exports share nothing
\* but the file system, so a draw may repeat an earlier one; overwritten
\* holds the paths written more than once.
\* backend is <<[files, overwritten, fallback, jobs]>>.
ExportFinishes(j, slot, suffix) ==
  LET b == backend[1]
      path == export(slot, suffix, TRUE)[1]
  IN /\ j \in DOMAIN b.jobs
     /\ b.jobs[j].slots[slot].st = "pending"
     /\ backend' = <<[b EXCEPT !.files = @ \cup {path},
                               !.overwritten = @ \cup ({path} \cap b.files),
                               !.jobs[j].slots[slot] = [st |-> "done", suffix |-> suffix]]>>
     /\ UNCHANGED <<cin, cout, loader, mvars>>

ExportFails(j, slot) ==
  LET b == backend[1]
  IN /\ j \in DOMAIN b.jobs
     /\ b.jobs[j].slots[slot].st = "pending"
     /\ backend' = <<[b EXCEPT !.jobs[j].slots[slot] = [st |-> "failed", suffix |-> ""]]>>
     /\ UNCHANGED <<cin, cout, loader, mvars>>

\* the GameImageSet of job j from what its exports returned, <<>> for a total failure
imagesOfJob(b, j) ==
  generateGameImages([prompt |-> b.jobs[j].prompt,
                      failed |-> {s \in ImageSlots : b.jobs[j].slots[s].st # "done"},
                      suffix |-> [s \in ImageSlots |-> b.jobs[j].slots[s].suffix],
                      fallback |-> b.fallback])

\* fault injection for C21: the response is sent when the first export has returned
Respond_unjoined(j) ==
  LET b == backend[1]
  IN /\ j \in DOMAIN b.jobs
     /\ b.jobs[j].response = <<>>
     /\ \E s \in ImageSlots : b.jobs[j].slots[s].st # "pending"
     /\ backend' = <<[b EXCEPT !.jobs[j].response =
                         IF imagesOfJob(b, j) = <<>> THEN <<"failure">>
                         ELSE <<"200", imagesOfJob(b, j)[1]>>]>>
     /\ UNCHANGED <<cin, cout, loader, mvars>>

\* the three exports are joined and the response is sent
Respond(j) ==
  LET b == backend[1]
  IN /\ j \in DOMAIN b.jobs
     /\ b.jobs[j].response = <<>>
     /\ \A s \in ImageSlots : b.jobs[j].slots[s].st # "pending"
     /\ backend' = <<[b EXCEPT !.jobs[j].response =
                         IF imagesOfJob(b, j) = <<>> THEN <<"failure">>
                         ELSE <<"200", imagesOfJob(b, j)[1]>>]>>
     /\ UNCHANGED <<cin, cout, loader, mvars>>

\* POST /generateGame arrives: the three exports are dispatched
Receive(p) ==
  LET b == backend[1]
  IN /\ Len(b.jobs) < MaxRequests
     /\ backend' = <<[b EXCEPT !.jobs = Append(@,
                         [prompt |-> p,
                          slots |-> [s \in ImageSlots |-> [st |-> "pending", suffix |-> ""]],
                          response |-> <<>>])]>>
     /\ UNCHANGED <<cin, cout, loader, mvars>>

BackInit ==
  /\ cin = <<>>
  /\ cout = <<>>
  /\ loader = <<>>
  /\ \E fb \in {<<>>} \cup {<<t>> : t \in FallbackTables} :
       backend = <<[files |-> IF fb = <<>> THEN {} ELSE {fb[1][s] : s \in ImageSlots},
                    overwritten |-> {},
                    fallback |-> fb,
                    jobs |-> <<>>]>>
  /\ game = FALSE
  /\ served = FALSE
  /\ reqs = <<>>
  /\ last = NoLast
  /\ localStorage = InitWorld.localStorage
  /\ dom = InitWorld.dom
  /\ phase = InitWorld.phase
  /\ gameData = InitWorld.gameData
  /\ currentSceneId = InitWorld.currentSceneId
  /\ successSceneId = InitWorld.successSceneId
  /\ failureSceneId = InitWorld.failureSceneId
  /\ isGameOver = InitWorld.isGameOver
  /\ assetLoader = InitWorld.assetLoader
  /\ textures = InitWorld.textures
  /\ buttons = InitWorld.buttons
  /\ display = InitWorld.display
  /\ queue = InitWorld.queue
  /\ settings = InitWorld.settings

BackNext ==
  \/ \E p \in Prompts : Receive(p)
  \/ \E j \in 1..MaxRequests, slot \in ImageSlots, suffix \in BackendSuffixes : ExportFinishes(j, slot, suffix)
  \/ \E j \in 1..MaxRequests, slot \in ImageSlots : ExportFails(j, slot)
  \/ \E j \in 1..MaxRequests : Respond(j)

SpecBackend == BackInit /\ [][BackNext]_vars

\* ------------------------------------------------------------------ claims
\* handlers of the playthrough scenes that call navigateToScene
NavOps == {"Continue", "choice_a", "choice_b", "Success", "Failure"}

DynamicOps == {"Continue", "choice_a", "choice_b"}

Endings == {"good_ending", "bad_ending"}

Challenges == {"challenge_a", "challenge_b"}

\* the start the handler that ran last has put in the queue
LastRequested == Requested(queue)[Len(queue) \div 2]

\* the handler that ran last asked the scene manager to start scene key with scene id id
Asks(by, key, id) ==
  /\ queue # <<>>
  /\ LastRequested = [key |-> key, id |-> id, by |-> by]

\* an update carried out every start that scene by had asked for, with the id asked
CarriedOut(by) ==
  last.op = "Update" =>
    /\ Len(last.entered) = Len(last.asked)
    /\ \A n \in DOMAIN last.asked : last.asked[n].by = by => last.entered[n] = last.asked[n]

\* C1: every running playthrough scene shows a scene id that is a key of the
\* scenes mapping of the game it holds, every start waiting in the queue
\* carries one of the six ids, and navigateToScene is never called with an id
\* outside the six (its default branch is never taken)
C1_SceneIdInMapping ==
  /\ \A s \in PlayScenes :
        phase[s] # "off" =>
          /\ gameData[s] # <<>>
          /\ currentSceneId[s] \in DOMAIN Obj(gameData[s][1]).scene_dsl.scenes
          /\ currentSceneId[s] \in SceneIds
  /\ \A n \in DOMAIN Requested(queue) :
        Requested(queue)[n].key \in PlayScenes => Requested(queue)[n].id \in SceneIds
  /\ last.op \in NavOps => last.arg \in SceneIds

\* the Failure button of a challenge of the generated game was pressed and bad_ending is shown
C1_Witness ==
  /\ phase["ConclusionScene"] = "ready"
  /\ currentSceneId["ConclusionScene"] = "bad_ending"
  /\ gameData["ConclusionScene"][1].i = "1"

\* C2 (as claimed): Success asks for good_ending and Failure for bad_ending,
\* a challenge scene asks for no other scene, and one visit never asks for
\* both endings
C2_ExactlyOneOutcome ==
  /\ last.op = "Success" => last.arg = "good_ending" /\ Asks("ObstacleRunScene", "ConclusionScene", "good_ending")
  /\ last.op = "Failure" => last.arg = "bad_ending" /\ Asks("ObstacleRunScene", "ConclusionScene", "bad_ending")
  /\ \A n \in DOMAIN Requested(queue) :
        Requested(queue)[n].by = "ObstacleRunScene" =>
          Requested(queue)[n].key = "ConclusionScene" /\ Requested(queue)[n].id \in Endings
  /\ ~(\E n, m \in DOMAIN Requested(queue) :
          /\ Requested(queue)[n] = [key |-> "ConclusionScene", id |-> "good_ending", by |-> "ObstacleRunScene"]
          /\ Requested(queue)[m] = [key |-> "ConclusionScene", id |-> "bad_ending", by |-> "ObstacleRunScene"])

\* C3: once quest_start is rendered both choices are offered, choice A asks
\* for challenge_a and choice B for challenge_b, no other handler leaves
\* quest_start, and the update enters the challenge that was asked for
C3_QuestBranches ==
  /\ (phase["DynamicScene"] = "ready" /\ currentSceneId["DynamicScene"] = "quest_start") =>
        buttons["DynamicScene"] = {[label |-> "choice_a", next |-> "challenge_a"],
                                   [label |-> "choice_b", next |-> "challenge_b"]}
  /\ (last.op \in DynamicOps /\ last.from = "quest_start") =>
        /\ last.op \in {"choice_a", "choice_b"}
        /\ last.op = "choice_a" => last.arg = "challenge_a"
        /\ last.op = "choice_b" => last.arg = "challenge_b"
        /\ Asks("DynamicScene", "ObstacleRunScene", last.arg)
  /\ CarriedOut("DynamicScene")

\* choice B was pressed in quest_start and the update has entered challenge_b
C3_Witness ==
  /\ last.op = "Update"
  /\ [key |-> "ObstacleRunScene", id |-> "challenge_b", by |-> "DynamicScene"] \in
       {last.entered[n] : n \in DOMAIN last.entered}
  /\ phase["ObstacleRunScene"] = "loading"
  /\ currentSceneId["ObstacleRunScene"] = "challenge_b"

\* C4: the rendered avatar scene offers the Continue button only, Continue is
\* the only handler that leaves avatar_creation, and it asks for quest_start
C4_AvatarContinues ==
  /\ (phase["DynamicScene"] = "ready" /\ currentSceneId["DynamicScene"] = "avatar_creation") =>
        buttons["DynamicScene"] = {[label |-> "Continue", next |-> "quest_start"]}
  /\ (last.op \in DynamicOps /\ last.from = "avatar_creation") =>
        /\ last.op = "Continue"
        /\ last.arg = "quest_start"
        /\ Asks("DynamicScene", "DynamicScene", "quest_start")
  /\ \A n \in DOMAIN last.entered :
        (last.entered[n].by = "DynamicScene" /\ last.entered[n].key = "DynamicScene") =>
          last.entered[n].id = "quest_start"

\* Continue was pressed in avatar_creation and the update has entered quest_start
C4_Witness ==
  /\ last.op = "Update"
  /\ last.entered = <<[key |-> "DynamicScene", id |-> "quest_start", by |-> "DynamicScene"]>>
  /\ currentSceneId["DynamicScene"] = "quest_start"

\* C5: a conclusion scene shows good_ending or bad_ending, offers the Play
\* Again button and nothing else, asks for no scene but TitleScene, and the
\* update that carries Play Again out starts TitleScene
C5_EndingsTerminal ==
  /\ phase["ConclusionScene"] # "off" => currentSceneId["ConclusionScene"] \in Endings
  /\ buttons["ConclusionScene"] =
        IF phase["ConclusionScene"] = "ready" THEN {[label |-> "Play Again", next |-> "TitleScene"]} ELSE {}
  /\ \A n \in DOMAIN Requested(queue) :
        Requested(queue)[n].by = "ConclusionScene" => Requested(queue)[n].key = "TitleScene"
  /\ last.op = "Play Again" =>
        /\ last.from \in Endings
        /\ Asks("ConclusionScene", "TitleScene", "")
  /\ CarriedOut("ConclusionScene")
  /\ (last.op = "Update" /\ last.entered # <<>> /\
       last.entered[Len(last.entered)] = [key |-> "TitleScene", id |-> "", by |-> "ConclusionScene"]) =>
        phase["TitleScene"] = "ready" /\ phase["ConclusionScene"] = "off"

\* Play Again was pressed in good_ending and the update has started TitleScene
C5_Witness ==
  /\ last.op = "Update"
  /\ last.entered = <<[key |-> "TitleScene", id |-> "", by |-> "ConclusionScene"]>>
  /\ currentSceneId["ConclusionScene"] = "good_ending"
  /\ phase["TitleScene"] = "ready"
\* an update has just started TitleScene because Play Again asked for it
TitleAfterPlayAgain ==
  /\ last.op = "Update"
  /\ last.entered # <<>>
  /\ last.entered[Len(last.entered)] = [key |-> "TitleScene", id |-> "", by |-> "ConclusionScene"]

WellFormed(dsl) ==
  /\ dsl.initial_scene = "avatar_creation"
  /\ dsl.initial_scene \in DOMAIN dsl.scenes
  /\ DOMAIN dsl.scenes = SceneIds
  /\ Cardinality(DOMAIN dsl.scenes) = 6
  /\ \A id \in DOMAIN dsl.scenes :
        /\ dsl.scenes[id].scene_id = id
        /\ isScene(dsl.scenes[id])
        /\ Has(dsl.scenes[id], "next_scene") => dsl.scenes[id].next_scene \in DOMAIN dsl.scenes
        /\ Has(dsl.scenes[id], "options") =>
              \A o \in DOMAIN dsl.scenes[id].options :
                dsl.scenes[id].options[o].next_scene \in DOMAIN dsl.scenes
        /\ Has(dsl.scenes[id], "success_scene") => dsl.scenes[id].success_scene \in DOMAIN dsl.scenes
        /\ Has(dsl.scenes[id], "failure_scene") => dsl.scenes[id].failure_scene \in DOMAIN dsl.scenes
  /\ Has(dsl.scenes["avatar_creation"], "next_scene")
  /\ DOMAIN dsl.scenes["quest_start"].options = {"0", "1"}
  /\ \A id \in Challenges :
        Has(dsl.scenes[id], "success_scene") /\ Has(dsl.scenes[id], "failure_scene")

\* C7: whenever convertToSceneStructure returns, the SceneDSL it returns is
\* well formed: initial_scene and every next_scene, success_scene and
\* failure_scene is a key of scenes, scenes has exactly the six ids, each
\* record is stored under its scene_id and has one of the four scene types
C7_WellFormedDSL ==
  (cout # <<>> /\ cout[1] = "ok") => WellFormed(cout[2].scene_dsl)

\* a response without choice_a was converted
C7_Witness ==
  /\ cout # <<>>
  /\ cout[1] = "ok"
  /\ ~Has(cin.game_data, "choice_a")
  /\ Has(cin.game_data, "images")

\* the successor the state machine fixes for a scene id and a button
Edge(from, op) ==
  CASE from = "avatar_creation" /\ op = "Continue" -> "quest_start"
    [] from = "quest_start" /\ op = "choice_a" -> "challenge_a"
    [] from = "quest_start" /\ op = "choice_b" -> "challenge_b"
    [] from \in Challenges /\ op = "Success" -> "good_ending"
    [] from \in Challenges /\ op = "Failure" -> "bad_ending"
    [] from \in Endings /\ op = "Play Again" -> "TitleScene"
    [] OTHER -> "none"

\* C8: the scene a button asks for is Edge of the scene id shown and the
\* button, in every reachable state: whatever the game, its images, the
\* outcome of the loads and the handlers that ran before
C8_TransitionFunction ==
  last.op \in NavOps \cup {"Play Again"} =>
    /\ Edge(last.from, last.op) # "none"
    /\ last.arg = Edge(last.from, last.op)
    /\ queue # <<>>
    /\ IF last.op = "Play Again" THEN LastRequested.key = "TitleScene"
                                ELSE LastRequested.id = Edge(last.from, last.op)

\* Failure was pressed in a game without images whose loads all failed
C8_Witness ==
  /\ last.op = "Failure"
  /\ ~served
  /\ gameData["ObstacleRunScene"][1].v = "noimages"

\* C9: a failed generation (no response, or a response the conversion throws
\* on) shows the generic message and the prompt, hides the loading screen,
\* and changes nothing else: localStorage, the scenes and the game stay as
\* they were, and the failed request never starts BootScene
C9_GenerationFailure ==
  /\ [](last.op = "GenerationFails" =>
          /\ dom = [prompt |-> TRUE, loading |-> FALSE, error |-> FAILED, errorShown |-> TRUE]
          /\ \E i \in DOMAIN reqs : ToString(i) = last.from /\ reqs[i].st = "failed")
  /\ [][last'.op = "GenerationFails" =>
          /\ localStorage' = localStorage
          /\ phase' = phase
          /\ gameData' = gameData
          /\ settings' = settings
          /\ queue' = queue
          /\ game' = game]_vars
  /\ [][\A i \in DOMAIN reqs : reqs[i].st = "failed" => reqs'[i].st = "failed"]_vars

\* the conversion threw on a response without npc while an earlier game was stored
C9_Witness ==
  /\ last.op = "GenerationFails"
  /\ last.arg = "nonpc"
  /\ localStorage # <<>>
  /\ dom.error = FAILED

\* the image slots of the game scene s holds
SlotsOf(s) ==
  LET images == imagesOf(Obj(gameData[s][1]))
  IN IF images = <<>> THEN {} ELSE DOMAIN images[1]

NarrativeFields ==
  {"setting", "protagonist_role", "npc", "hook", "quest_offer", "choice_a", "choice_b",
   "challenge_intro", "climax", "ending_good", "ending_bad", "epilogue"}

\* the response behind the game r has every narrative field
Complete(r) ==
  /\ Has(ResponseBody(r), "game_data")
  /\ NarrativeFields \subseteq DOMAIN ResponseBody(r).game_data

\* C11 (as claimed): a response with a narrative field missing produces no
\* game: the game of a request that went on, the stored game and the game
\* every scene holds come from responses with every narrative field
C11_NoPartialGame ==
  /\ \A i \in DOMAIN reqs : reqs[i].gameData # <<>> => Complete(reqs[i].gameData[1])
  /\ localStorage # <<>> => Complete(localStorage[1].json)
  /\ \A s \in Scenes : gameData[s] # <<>> => Complete(gameData[s][1])

\* the GameImageSet received with the response behind game r: <<>> when it has none
ReceivedImages(r) ==
  LET body == ResponseBody(r)
  IN IF Has(body, "game_data") /\ Has(body.game_data, "images")
       THEN <<body.game_data.images>> ELSE <<>>

\* the image paths of that GameImageSet
PathsOf(r) ==
  IF ReceivedImages(r) = <<>> THEN {}
  ELSE {ReceivedImages(r)[1][slot] : slot \in DOMAIN ReceivedImages(r)[1]}

\* the games this page session has held: the stored one and those generated
KnownGames ==
  {StoredGame} \cup {reqs[i].gameData[1] : i \in {j \in DOMAIN reqs : reqs[j].gameData # <<>>}}

\* the urls generateImage gives for the prompts of the two challenge records of game r
PromptURLs(r) ==
  LET gd == ResponseBody(r).game_data
  IN {generateImage(Get(rec, f)) :
        rec \in {challengeScene(gd), challengeSceneB(gd)},
        f \in {"background_prompt", "obstacle_prompt"}}

\* C12 (as claimed): no playthrough scene queues an asset by prompt, and
\* every url it queues is a path of the GameImageSet of the game it holds
C12_NeverRegenerated ==
  \A s \in PlayScenes :
    (gameData[s] # <<>> /\ assetLoader[s] # <<>>) =>
      \A k \in DOMAIN assetLoader[s][1] :
        /\ ~Has(assetLoader[s][1][k], "prompt")
        /\ assetLoader[s][1][k].url \in PathsOf(gameData[s][1])

\* C12 (amended): a playthrough scene whose game has an images record queues
\* only paths of that record; only ObstacleRunScene with a game without an
\* images record queues by prompt, its two assets and from the prompts of
\* its scene record; every texture comes from a path of a game of this
\* session or from generateImage of such a prompt under an obstacle key
C12_RegeneratedOnlyWithoutImages ==
  /\ \A s \in PlayScenes :
        (gameData[s] # <<>> /\ assetLoader[s] # <<>>) =>
          LET assets == assetLoader[s][1]
              g == gameData[s][1]
          IN IF ReceivedImages(g) # <<>>
               THEN \A k \in DOMAIN assets :
                      ~Has(assets[k], "prompt") /\ assets[k].url \in PathsOf(g)
               ELSE \/ assets = NoData
                    \/ /\ s = "ObstacleRunScene"
                       /\ DOMAIN assets = {"bg_" \o currentSceneId[s], "obstacle_" \o currentSceneId[s]}
                       /\ \A k \in DOMAIN assets :
                             /\ ~Has(assets[k], "url")
                             /\ generateImage(assets[k].prompt) \in PromptURLs(g)
  /\ \A k \in TextureKeys :
        textures[k] # "" =>
          \/ \E g \in KnownGames : textures[k] \in PathsOf(g)
          \/ /\ k \notin ImageSlots
             /\ \E g \in KnownGames : ReceivedImages(g) = <<>> /\ textures[k] \in PromptURLs(g)

\* a challenge of a game without images was loaded from generateImage's urls
C12_Witness ==
  /\ phase["ObstacleRunScene"] = "ready"
  /\ gameData["ObstacleRunScene"][1].v = "noimages"
  /\ currentSceneId["ObstacleRunScene"] = "challenge_a"
  /\ textures["bg_challenge_a"] \in PromptURLs(gameData["ObstacleRunScene"][1])

\* the scenes whose create awaits loadAll, and the step in which it resolves
LoadingScenes == {"BootScene", "DynamicScene", "ObstacleRunScene", "ConclusionScene"}

LoadedOp(s) ==
  CASE s = "BootScene" -> "BootLoaded"
    [] s = "DynamicScene" -> "DynamicLoaded"
    [] s = "ObstacleRunScene" -> "ObstacleLoaded"
    [] OTHER -> "ConclusionLoaded"

\* the number of starts scene s has waiting in the queue q
AskedBy(q, s) == Cardinality({n \in DOMAIN Requested(q) : Requested(q)[n].by = s})

\* C13: a scene that awaits loadAll has rendered nothing and has no button;
\* the only step in which such a scene renders, gets a button or asks for
\* another scene is the one in which its loadAll resolves (no timer or other
\* handler does it), and that step leaves the scene rendered
C13_SuspendedOnLoad ==
  /\ [](\A s \in LoadingScenes : phase[s] \in {"preload", "loading"} => buttons[s] = {})
  /\ [][\A s \in LoadingScenes :
          (/\ phase[s] = "loading"
           /\ \/ phase'[s] = "ready"
              \/ buttons'[s] # {}
              \/ AskedBy(queue', s) > AskedBy(queue, s))
            => last'.op = LoadedOp(s)]_vars
  /\ [](\A s \in PlayScenes : last.op = LoadedOp(s) => phase[s] = "ready" /\ buttons[s] # {})
  /\ [](last.op = "BootLoaded" => phase["BootScene"] = "ready" /\ Asks("BootScene", "TitleScene", ""))

\* the asset server answered nothing, loadAll of a conclusion scene resolved all the same and it rendered
C13_Witness ==
  /\ last.op = "ConclusionLoaded"
  /\ ~served
  /\ phase["ConclusionScene"] = "ready"
  /\ buttons["ConclusionScene"] # {}

\* the calls whose answer was a game, and the one among them answered last
Succeeded == {i \in DOMAIN reqs : reqs[i].gameData # <<>>}

LastAnswered == CHOOSE i \in Succeeded : \A j \in Succeeded : reqs[j].at <= reqs[i].at

\* two references to the game of the same response
SameGame(a, b) == a.i = b.i /\ a.v = b.v

\* two calls overlapped, both were answered with a game, both timers have
\* fired, and BootScene has nothing left to load or to start
Settled ==
  /\ Len(reqs) = 2
  /\ \A i \in DOMAIN reqs : reqs[i].st = "started"
  /\ phase["BootScene"] \notin {"preload", "loading"}
  /\ queue = <<>>

\* C14 (as claimed): once two overlapping calls have settled, the stored game
\* and the game the title scene holds are those of the call answered last
C14_LastWriteWins ==
  Settled =>
    /\ localStorage # <<>> => SameGame(localStorage[1].json, reqs[LastAnswered].gameData[1])
    /\ gameData["TitleScene"] # <<>> =>
          SameGame(gameData["TitleScene"][1], reqs[LastAnswered].gameData[1])

\* the call whose answer or timer the last step handled
LastCall == CHOOSE i \in DOMAIN reqs : ToString(i) = last.from

\* a call stays as it is until its own answer arrives, and its timer until it
\* fires: no other handler, the title's restart included, changes it
Untouched ==
  [][\A i \in DOMAIN reqs :
       (reqs[i].st \in {"posted", "timer"} /\ reqs'[i] # reqs[i]) =>
          /\ last'.op \in {"GenerationSucceeds", "GenerationFails", "StartGame"}
          /\ last'.from = ToString(i)
          /\ reqs[i].st = "timer" <=> last'.op = "StartGame"]_vars

\* an answer with a game is written to localStorage whatever the page shows
AnswerStored ==
  [](last.op = "GenerationSucceeds" =>
       /\ reqs[LastCall].st = "timer"
       /\ localStorage = <<stringified(reqs[LastCall].gameData[1])>>)

\* C15 (as claimed): nothing but its answer changes a call that was issued;
\* the answer is written to localStorage, and the timer that follows starts
\* BootScene with the game of that answer
C15_NoCancellation ==
  /\ Untouched
  /\ AnswerStored
  /\ [](last.op = "StartGame" =>
          /\ phase["BootScene"] = "preload"
          /\ gameData["BootScene"] # <<>>
          /\ SameGame(gameData["BootScene"][1], reqs[LastCall].gameData[1]))

\* C15 (amended): nothing but its answer changes a call that was issued; the
\* answer is written to localStorage; the timer that follows restarts
\* BootScene with the game of that answer when the Phaser game exists, and
\* otherwise tries to create the game, whose BootScene then takes the stored
\* copy, and starts nothing when the creation throws
C15_NoCancellationWhenGameExists ==
  /\ Untouched
  /\ AnswerStored
  /\ [][last'.op = "StartGame" =>
          IF game
            THEN /\ phase'["BootScene"] = "preload"
                 /\ gameData'["BootScene"] = reqs'[LastCall'].gameData
                 /\ localStorage' = <<stringified(reqs'[LastCall'].gameData[1])>>
          ELSE IF game'
            THEN /\ phase'["BootScene"] = "preload"
                 /\ localStorage' = localStorage
                 /\ localStorage # <<>> => gameData'["BootScene"] = <<parsed(localStorage[1])>>
          ELSE /\ phase' = phase
               /\ gameData' = gameData
               /\ localStorage' = localStorage]_vars

\* the title's restart was pressed while the second call waited for its
\* answer; the answer has arrived and is stored
C15_Witness ==
  /\ last.op = "GenerationSucceeds"
  /\ last.from = "2"
  /\ reqs[1].st = "started"
  /\ dom.prompt
  /\ ~dom.errorShown
  /\ gameData["TitleScene"] = <<>>
  /\ localStorage # <<>>
\* the conclusion text of the good ending of the game r
GoodEndingText(r) ==
  LET gd == ResponseBody(r).game_data
  IN Get(gd, "climax") \o "\n\n" \o Get(gd, "ending_good") \o "\n\n" \o Get(gd, "epilogue")

\* the good ending of a complete game with its three images has been rendered
\* while the asset server answers
GoodEndingRendered ==
  /\ last.op = "ConclusionLoaded"
  /\ served
  /\ currentSceneId["ConclusionScene"] = "good_ending"
  /\ gameData["ConclusionScene"] # <<>>
  /\ gameData["ConclusionScene"][1].v = "full"

\* C16 (as claimed): Begin Adventure asks for avatar_creation, Continue there
\* for quest_start, option A there for challenge_a and Success there for
\* good_ending, and the rendered good ending of a complete game shows the
\* conclusion text of that game and the avatar image received with it
C16_EndToEnd ==
  /\ (last.op = "Begin Adventure" /\ gameData["TitleScene"] # <<>>) =>
        Asks("TitleScene", "DynamicScene", "avatar_creation")
  /\ (last.op = "Continue" /\ last.from = "avatar_creation") =>
        Asks("DynamicScene", "DynamicScene", "quest_start")
  /\ (last.op = "choice_a" /\ last.from = "quest_start") =>
        Asks("DynamicScene", "ObstacleRunScene", "challenge_a")
  /\ (last.op = "Success" /\ last.from = "challenge_a") =>
        Asks("ObstacleRunScene", "ConclusionScene", "good_ending")
  /\ GoodEndingRendered =>
        LET g == gameData["ConclusionScene"][1]
            shown == display["ConclusionScene"]
        IN /\ shown.text = <<"Victory!", GoodEndingText(g)>>
           /\ "avatar" \in DOMAIN shown.images
           /\ shown.images["avatar"] = ReceivedImages(g)[1].avatar
\* the target the scenes mapping dsl gives the action op of scene id from
DSLTarget(dsl, from, op) ==
  IF ~Has(dsl.scenes, from) THEN "undefined"
  ELSE LET scene == dsl.scenes[from]
       IN CASE op = "Continue" -> Get(scene, "next_scene")
            [] op = "choice_a" -> IF Has(scene, "options") THEN Get(scene.options["0"], "next_scene") ELSE "undefined"
            [] op = "choice_b" -> IF Has(scene, "options") THEN Get(scene.options["1"], "next_scene") ELSE "undefined"
            [] op = "Success" -> Get(scene, "success_scene")
            [] op = "Failure" -> Get(scene, "failure_scene")
            [] OTHER -> "undefined"

\* the scene class whose handler op is
SceneOf(op) == IF op \in DynamicOps THEN "DynamicScene" ELSE "ObstacleRunScene"

\* the actions the scenes mapping gives scene id from
ActionsOf(from) ==
  CASE from = "avatar_creation" -> {"Continue"}
    [] from = "quest_start" -> {"choice_a", "choice_b"}
    [] from \in Challenges -> {"Success", "Failure"}
    [] OTHER -> {}

\* C17: the scene a navigation handler asks for is the target the SceneDSL
\* of the game its scene holds gives that scene id and action, the update
\* enters the scene asked for, and the SceneDSL of every game a scene holds
\* has the same targets: those of Edge
C17_AgreesWithDSL ==
  /\ last.op \in NavOps =>
        /\ gameData[SceneOf(last.op)] # <<>>
        /\ last.arg = DSLTarget(Obj(gameData[SceneOf(last.op)][1]).scene_dsl, last.from, last.op)
        /\ Asks(SceneOf(last.op), DynamicScene_route(last.arg), last.arg)
  /\ CarriedOut("DynamicScene")
  /\ CarriedOut("ObstacleRunScene")
  /\ \A s \in PlayScenes :
        (gameData[s] # <<>> /\ phase[s] # "off") =>
          LET dsl == Obj(gameData[s][1]).scene_dsl
          IN \A from \in SceneIds : \A op \in ActionsOf(from) :
               DSLTarget(dsl, from, op) = Edge(from, op)

\* option B was chosen in the game generated in this session, whose object
\* has been through JSON once, and the update has entered challenge_b
C17_Witness ==
  /\ last.op = "Update"
  /\ last.entered = <<[key |-> "ObstacleRunScene", id |-> "challenge_b", by |-> "DynamicScene"]>>
  /\ gameData["ObstacleRunScene"][1].i = "1"
  /\ gameData["ObstacleRunScene"][1].trips > 0
\* scene s has rendered a game that came with its three images while the
\* asset server answers
RenderedWithImages(s) ==
  /\ phase[s] = "ready"
  /\ served
  /\ gameData[s] # <<>>
  /\ gameData[s][1].v = "full"
  /\ assetLoader[s] # <<>>

\* the urls scene s has queued, and the urls of the images it shows
QueuedURLs(s) == {assetURL(assetLoader[s][1][k]) : k \in DOMAIN assetLoader[s][1]}

ShownURLs(s) == {display[s].images[k] : k \in DOMAIN display[s].images}

\* every path of every game this page session has held
SessionPaths == UNION {PathsOf(g) : g \in KnownGames}

StartedNow(s) ==
  \/ last.op = "Update" /\ \E n \in DOMAIN last.entered : last.entered[n].key = s
  \/ s = "BootScene" /\ last.op \in {"load", "StartGame"} /\ game

\* the object JSON.parse gives for the stored text
StoredObject == JSONparse(JSONstringify(Obj(localStorage[1].json)))

\* C19: a game handed to BootScene.init or TitleScene.init is the one the
\* scene holds, and BootScene.init has it in localStorage; started without a
\* game while one is stored, the scene holds an object equal to the one that
\* was stored, scene_dsl, game_data and images included; the title entered
\* from a conclusion holds an object equal to the stored one
C19_PersistedCopy ==
  /\ \A s \in {"BootScene", "TitleScene"} :
        StartedNow(s) =>
          IF Has(settings[s], "gameData")
            THEN /\ gameData[s] = <<settings[s].gameData>>
                 /\ s = "BootScene" =>
                      /\ localStorage # <<>>
                      /\ StoredObject = Obj(settings[s].gameData)
            ELSE localStorage # <<>> =>
                   /\ gameData[s] # <<>>
                   /\ Obj(gameData[s][1]) = StoredObject
                   /\ StoredObject = Obj(localStorage[1].json)
                   /\ Has(StoredObject, "scene_dsl") /\ Has(StoredObject, "game_data")
                   /\ imagesOf(StoredObject) = imagesOf(convertToSceneStructure(ResponseBody(localStorage[1].json)))
  /\ (last.op = "Update" /\ localStorage # <<>>
        /\ \E n \in DOMAIN last.entered :
             last.entered[n].key = "TitleScene" /\ last.entered[n].by = "ConclusionScene") =>
        /\ gameData["TitleScene"] # <<>>
        /\ Obj(gameData["TitleScene"][1]) = StoredObject
\* the request of the step: a set was returned, or the request failed
Returned == cout # <<>> /\ cout[1] = "GameImageSet"

FailedWhole == cout # <<>> /\ cout[1] = "failure"

\* the paths of the set returned
ReturnedPaths == {cout[2][s] : s \in DOMAIN cout[2]}

\* a set returned has the three slots, each a non-empty path; a slot whose
\* export succeeded keeps its generated path and a slot whose export failed
\* holds a fallback reference
CompleteSet ==
  Returned =>
    /\ DOMAIN cout[2] = ImageSlots
    /\ \A s \in ImageSlots :
          /\ cout[2][s] # ""
          /\ s \notin cin.failed => cout[2][s] = "assets/" \o s \o "_" \o cin.suffix[s] \o ".png"
          /\ s \in cin.failed => cin.fallback # <<>> /\ cout[2][s] = cin.fallback[1][s]

\* the request fails as a whole exactly when an export failed and there is no fallback
FailsOnlyWithoutFallback ==
  FailedWhole <=> (cout # <<>> /\ cin.failed # {} /\ cin.fallback = <<>>)

\* C20 (as claimed): every set returned is complete, its three paths are
\* distinct whatever exports failed, and the request fails as a whole only
\* when the fallback cannot be produced
C20_AlwaysThreeDistinct ==
  /\ CompleteSet
  /\ Returned => Cardinality(ReturnedPaths) = 3
  /\ FailsOnlyWithoutFallback

\* C20 (amended): every set returned is complete and the request fails as a
\* whole only when the fallback cannot be produced; the three paths are
\* distinct when at most one export failed
C20_DistinctWithOneFailure ==
  /\ CompleteSet
  /\ (Returned /\ Cardinality(cin.failed) <= 1) => Cardinality(ReturnedPaths) = 3
  /\ FailsOnlyWithoutFallback

\* the export of the npc failed: its slot holds the fallback reference and
\* the other two slots their generated paths
C20_Witness ==
  /\ Returned
  /\ cin.failed = {"npc"}
  /\ cout[2].npc = "assets/fallback.png"
  /\ cout[2].avatar = "assets/avatar_" \o cin.suffix["avatar"] \o ".png"
  /\ cout[2].background = "assets/background_" \o cin.suffix["background"] \o ".png"
\* the requests of the back end that were answered with a GameImageSet
Answered200 == {j \in DOMAIN backend[1].jobs :
                  backend[1].jobs[j].response # <<>> /\ backend[1].jobs[j].response[1] = "200"}

\* C21: a response is sent only when none of the three exports of its
\* request is still running, and every path of a successful response, the
\* three slots, is a file under the asset root, whichever export returned
\* first and whatever other request is being served
C21_JoinedBeforeResponse ==
  /\ \A j \in DOMAIN backend[1].jobs :
        backend[1].jobs[j].response # <<>> =>
          \A s \in ImageSlots : backend[1].jobs[j].slots[s].st # "pending"
  /\ \A j \in Answered200 :
        /\ DOMAIN backend[1].jobs[j].response[2] = ImageSlots
        /\ \A s \in ImageSlots : backend[1].jobs[j].response[2][s] \in backend[1].files

\* the first request was answered with its three generated paths while an
\* export of the second is still running
C21_Witness ==
  /\ Len(backend[1].jobs) = 2
  /\ 1 \in Answered200
  /\ \A s \in ImageSlots : backend[1].jobs[1].slots[s].st = "done"
  /\ \E s \in ImageSlots : backend[1].jobs[2].slots[s].st = "pending"
  /\ \E s \in ImageSlots : backend[1].jobs[2].slots[s].st = "done"

\* the exports that have written a file, and the path each wrote
Written == {e \in (DOMAIN backend[1].jobs) \X ImageSlots : backend[1].jobs[e[1]].slots[e[2]].st = "done"}

PathWritten(e) == export(e[2], backend[1].jobs[e[1]].slots[e[2]].suffix, TRUE)[1]

\* C22: no two exports write the same path, of one request or of two, and
\* no file is written twice
C22_NeverCollide ==
  /\ \A e, f \in Written : e # f => PathWritten(e) # PathWritten(f)
  /\ backend[1].overwritten = {}

\* the rows of table whose keyword occurs in the text whatever the case of its letters
Matching(table, text) == {n \in DOMAIN table : includes(toLowerCase(text), table[n].keyword)}

\* the id the claim gives a text on the axis of table
FirstOf(table, text, default) ==
  IF Matching(table, text) = {} THEN default
  ELSE table[CHOOSE n \in Matching(table, text) : \A m \in Matching(table, text) : n <= m].id

\* C23: for every text classify returns a character and an environment
\* archetype of the catalog: on each axis the id of the first row of the
\* ordered table whose keyword occurs in the text, case-insensitively, and
\* the default archetype when no keyword occurs
C23_TotalFirstMatch ==
  cout # <<>> =>
    /\ DOMAIN cout[1] = {"character", "environment"}
    /\ cout[1].character \in CharacterArchetypes
    /\ cout[1].environment \in EnvironmentArchetypes
    /\ cout[1].character = FirstOf(CharacterTable, cin, DefaultCharacter)
    /\ cout[1].environment = FirstOf(EnvironmentTable, cin, DefaultEnvironment)

\* a text in upper case in which the keywords of wizard, warrior and archer
\* occur was classified as wizard, the first of the three rows
C23_Witness ==
  /\ cout # <<>>
  /\ cin = <<"W", "a", "r">>
  /\ cout[1].character = "wizard"
  /\ cout[1].environment = "fantasy"

\* the timer of a call answered with a game has fired with a Phaser game to
\* start or restart, and BootScene and the scene manager have nothing left to do
BootSettled(i) ==
  /\ reqs[i].st = "started"
  /\ game
  /\ phase["BootScene"] \notin {"preload", "loading"}
  /\ queue = <<>>

\* C24: when BootScene has run to its end after the timer of a successful
\* generation fired and the update starts the title scene for it, the title
\* scene holds exactly the generated game; when the timer fires, the
\* generated game is already in localStorage
C24_TitleGetsGeneratedGame ==
  /\ \A i \in DOMAIN reqs :
        (BootSettled(i) /\ last.op = "Update"
           /\ \E n \in DOMAIN last.entered :
                last.entered[n].key = "TitleScene" /\ last.entered[n].by = "BootScene") =>
          /\ gameData["TitleScene"] # <<>>
          /\ Obj(gameData["TitleScene"][1]) = Obj(reqs[i].gameData[1])
  /\ last.op = "StartGame" =>
        /\ localStorage # <<>>
        /\ SameGame(localStorage[1].json, reqs[LastCall].gameData[1])
\* a playthrough scene was entered by the handler that ran last
PlaythroughEntered == \E n \in DOMAIN last.entered : last.entered[n].key \in PlayScenes

\* only the answer of a successful generation writes the 'gameData' entry, so
\* the entry is absent from the title's restart until a new generation succeeded
NotGeneratedSince == localStorage = <<>>

\* C25: the title's restart removes the localStorage entry and the title's game
\* data and shows the prompt; until a new generation has succeeded Begin
\* Adventure only re-shows the prompt, and no playthrough scene is entered
C25_RestartForgetsGame ==
  /\ last.op = "restart" =>
        /\ localStorage = <<>>
        /\ gameData["TitleScene"] = <<>>
        /\ dom.prompt
  /\ (last.op = "Begin Adventure" /\ NotGeneratedSince) =>
        /\ dom.prompt
        /\ ~(queue # <<>> /\ LastRequested.by = "TitleScene")
  /\ NotGeneratedSince => ~PlaythroughEntered
\* the data handed to init of scene s lacks the game or the scene id
WithoutData(s) == ~Has(settings[s], "gameData") \/ Get(settings[s], "sceneId") \in {"", "undefined"}

\* the SceneDSL record for the scene id handed to ObstacleRunScene is absent
\* or is not an obstacle_run record
WithoutRecord ==
  /\ ~WithoutData("ObstacleRunScene")
  /\ LET dsl == Obj(settings["ObstacleRunScene"].gameData).scene_dsl
         id == settings["ObstacleRunScene"].sceneId
     IN ~Has(dsl.scenes, id) \/ Get(dsl.scenes[id], "scene_type") # "obstacle_run"

\* scene s has asked for the title scene and has rendered nothing
FellBack(s) ==
  /\ Asks(s, "TitleScene", "")
  /\ buttons[s] = {}
  /\ display[s] = Blank

\* C26: a playthrough scene entered without game data or without scene id,
\* and ObstacleRunScene entered for an id whose record is absent or not an
\* obstacle_run record, asks for the title scene and renders nothing
C26_FallsBackToTitle ==
  \A s \in PlayScenes :
    (last.op = "Enter" /\ last.from = s
       /\ (WithoutData(s) \/ (s = "ObstacleRunScene" /\ WithoutRecord))) => FellBack(s)
\* navigateToScene of a scene that holds a game was called with an id outside the six
NavigatedToUnknown ==
  /\ last.op = "navigateToScene"
  /\ gameData[last.from] # <<>>
  /\ last.arg \notin SceneIds

\* DynamicScene shows the default scene, whose only button is Continue to quest_start
DefaultSceneShown ==
  /\ buttons["DynamicScene"] = {[label |-> "Continue", next |-> "quest_start"]}
  /\ display["DynamicScene"].text = <<"Adventure Continues">>

\* the last start an update carried out was asked for DynamicScene with an
\* id outside the six
UnknownIdCarriedOut ==
  /\ last.op = "Update"
  /\ last.asked # <<>>
  /\ last.asked[Len(last.asked)].key = "DynamicScene"
  /\ last.asked[Len(last.asked)].id \notin SceneIds

\* DynamicScene is running with the id that was asked for
RunsAskedId ==
  /\ phase["DynamicScene"] \in {"loading", "ready"}
  /\ currentSceneId["DynamicScene"] = last.asked[Len(last.asked)].id

\* C27 as stated: navigateToScene called with any id outside the six asks for
\* DynamicScene with that id; the update leaves DynamicScene running with that
\* id; once created it shows the default scene, whose Continue asks for
\* DynamicScene with quest_start
C27_AnyUnknownId ==
  /\ NavigatedToUnknown =>
        last.asked = <<[key |-> "DynamicScene", id |-> last.arg, by |-> last.from]>>
  /\ UnknownIdCarriedOut => RunsAskedId
  /\ (phase["DynamicScene"] = "ready" /\ currentSceneId["DynamicScene"] \notin SceneIds) =>
        DefaultSceneShown
  /\ (last.op = "Continue" /\ last.from \notin SceneIds) =>
        Asks("DynamicScene", "DynamicScene", "quest_start")

\* C27 (amended): the same for every non-empty id outside the six; with the
\* empty id DynamicScene is entered too, but it renders nothing and starts
\* the title scene in the same update
C27_NonEmptyUnknownId ==
  /\ NavigatedToUnknown =>
        last.asked = <<[key |-> "DynamicScene", id |-> last.arg, by |-> last.from]>>
  /\ UnknownIdCarriedOut =>
        IF last.asked[Len(last.asked)].id = ""
          THEN /\ phase["DynamicScene"] = "off"
               /\ phase["TitleScene"] = "ready"
               /\ display["DynamicScene"] = Blank
          ELSE RunsAskedId
  /\ (phase["DynamicScene"] = "ready" /\ currentSceneId["DynamicScene"] \notin SceneIds) =>
        DefaultSceneShown
  /\ (last.op = "Continue" /\ last.from \notin SceneIds) =>
        Asks("DynamicScene", "DynamicScene", "quest_start")

\* Continue was pressed in the default scene shown for an unknown id
C27_Witness ==
  /\ last.op = "Continue"
  /\ last.from = "nowhere"
  /\ Asks("DynamicScene", "DynamicScene", "quest_start")
\* the Phaser scene the claim gives for a scene id
RoutingTable(id) ==
  CASE id \in {"avatar_creation", "quest_start"} -> "DynamicScene"
    [] id \in Challenges -> "ObstacleRunScene"
    [] id \in Endings -> "ConclusionScene"
    [] OTHER -> "DynamicScene"

\* C28: navigateToScene of DynamicScene and of ObstacleRunScene, called with
\* any id, does nothing when the scene holds no game, and otherwise asks for
\* the scene the routing table gives, with that id and the game the scene holds
C28_SameRouting ==
  last.op = "navigateToScene" =>
    IF gameData[last.from] = <<>>
      THEN last.asked = <<>> /\ queue = <<>>
      ELSE /\ last.asked = <<[key |-> RoutingTable(last.arg), id |-> last.arg, by |-> last.from]>>
           /\ queue[Len(queue)].data = [sceneId |-> last.arg, gameData |-> gameData[last.from][1]]

\* ObstacleRunScene, holding a game, was asked to navigate to an unknown id
C28_Witness ==
  /\ last.op = "navigateToScene"
  /\ last.from = "ObstacleRunScene"
  /\ last.arg = "nowhere"
  /\ gameData["ObstacleRunScene"] # <<>>
  /\ Asks("ObstacleRunScene", "DynamicScene", "nowhere")
\* the starts of playthrough scenes the last update carried out
PlaythroughStarts ==
  {n \in DOMAIN last.entered : last.op = "Update" /\ last.entered[n].key \in PlayScenes}

\* the scene whose handler an operation of the user runs
HandlerOf(op) ==
  CASE op = "Begin Adventure" -> "TitleScene"
    [] op \in DynamicOps -> "DynamicScene"
    [] OTHER -> "ObstacleRunScene"

\* C29: a handler of a scene that holds a game asks for a playthrough scene
\* and hands over the very game object its scene holds, a playthrough scene started by an update holds the
\* very object it was handed, and that object is a game of the session
C29_GameDataUnchanged ==
  /\ (last.op \in NavOps \cup {"Begin Adventure"} /\ gameData[HandlerOf(last.op)] # <<>>) =>
        /\ queue # <<>>
        /\ LastRequested.by = HandlerOf(last.op)
        /\ LastRequested.key \in PlayScenes
        /\ queue[Len(queue)].data.gameData = gameData[HandlerOf(last.op)][1]
  /\ \A n \in PlaythroughStarts :
       LET e == last.entered[n]
       IN phase[e.key] # "off" =>
            /\ gameData[e.key] = <<settings[e.key].gameData>>
            /\ \E g \in KnownGames : SameGame(gameData[e.key][1], g)

\* an update has started ConclusionScene for ObstacleRunScene with the game that scene holds
C29_Witness ==
  /\ \E n \in PlaythroughStarts :
       last.entered[n].key = "ConclusionScene" /\ last.entered[n].by = "ObstacleRunScene"
  /\ phase["ConclusionScene"] = "loading"
  /\ gameData["ConclusionScene"] # <<>>
  /\ gameData["ConclusionScene"] = gameData["ObstacleRunScene"]
\* the ending that goes with an outcome of the mini-game
EndingOf(outcome) == IF outcome = "Success" THEN "good_ending" ELSE "bad_ending"

Offered(s) == {b.label : b \in buttons[s]}

\* the user actions the playthrough gives a scene whose load has completed
ActionsFor(s) ==
  CASE s = "TitleScene" -> {"Begin Adventure"}
    [] s = "DynamicScene" /\ currentSceneId[s] = "avatar_creation" -> {"Continue"}
    [] s = "DynamicScene" /\ currentSceneId[s] = "quest_start" -> {"choice_a", "choice_b"}
    [] s = "ObstacleRunScene" -> {"Success", "Failure"}
    [] s = "ConclusionScene" -> {"Play Again"}
    [] OTHER -> {}

\* C31: a playthrough scene whose load has completed offers the buttons of
\* its scene id and the canvas takes the pointer, so one of them can be
\* pressed; the title scene, whenever the canvas takes the pointer, offers
\* Begin Adventure
C31_NoDeadEnd ==
  /\ \A s \in PlayScenes :
       phase[s] = "ready" =>
         /\ ActionsFor(s) # {}
         /\ ActionsFor(s) \subseteq Offered(s)
         /\ canvasReachable
  /\ (phase["TitleScene"] = "ready" /\ canvasReachable) =>
       ActionsFor("TitleScene") \subseteq Offered("TitleScene")
\* the game generated last in this page session
NewestGame == reqs[Len(reqs)].gameData[1]

\* scene s has rendered the second generated game, which came with its three
\* images, while the asset server answers
RendersSecondGame(s) ==
  /\ Len(reqs) > 1
  /\ reqs[Len(reqs)].gameData # <<>>
  /\ RenderedWithImages(s)
  /\ SameGame(gameData[s][1], NewestGame)

\* C32: a playthrough scene that has rendered the second game generated in
\* the session shows images, and every image it shows was loaded from a path
\* of the GameImageSet of that game
C32_NewestImages ==
  \A s \in PlayScenes :
    RendersSecondGame(s) =>
      /\ ShownURLs(s) # {}
      /\ ShownURLs(s) \subseteq PathsOf(NewestGame)
\* ------------------------------------- AssetLoader (its own specification)
\* loader is <<[assets, generatedAssets, list, state, textures, audio, calls, queued, did]>>:
\* assets and generatedAssets are the two maps of the class; list and state
\* are the files and the state of scene.load, textures and audio the keys of
\* the scene's texture manager and audio cache; calls holds one record per
\* loadAll: whether load.start was reached, the keys handed to scene.load,
\* whether completeListener is registered, how often resolve was called and
\* whether the promise was rejected; queued counts the queue calls and did
\* names the method that ran last.
LoaderKeys == {"bg", "npc"}

AssetTypes == {"image", "audio", "spritesheet"}

\* a prompt with a lone surrogate: encodeURIComponent throws URIError on it
LoneSurrogate == "\\uD800"

LoaderPrompts == {"", "hero", LoneSurrogate}

LoaderURLs == {"", "assets/hero.png"}

\* frameConfig is undefined or a frame configuration
FrameConfigs == {<<>>, <<"32x32">>}

MaxQueue == 3

MaxLoadAll == 2

Truthy(s) == s # ""

AssetLoader_queueAsset(l, key, type, prompt, frameConfig) ==
  [l EXCEPT !.assets = (key :> [key |-> key, type |-> type, prompt |-> prompt,
                                frameConfig |-> frameConfig, loaded |-> FALSE]) @@ @]

AssetLoader_queueAssetWithURL(l, key, type, url, frameConfig) ==
  [l EXCEPT !.assets = (key :> [key |-> key, type |-> type, url |-> url,
                                frameConfig |-> frameConfig, loaded |-> FALSE]) @@ @]

\* generateImage rejects when encodeURIComponent throws
generateImage_rejects(prompt) == prompt = LoneSurrogate

fallbackUrl(key) == "https://via.placeholder.com/400x400?text=Failed+to+generate+" \o key

\* fault injection for C36: generateAsset without its catch block
AssetLoader_generateAsset_uncaught(key, prompt) ==
  IF generateImage_rejects(prompt) THEN <<>> ELSE <<generateImage(prompt)>>

\* generateAsset: <<the url stored in generatedAssets>>, <<>> when it rejects
AssetLoader_generateAsset(key, prompt) ==
  IF generateImage_rejects(prompt) THEN <<fallbackUrl(key)>> ELSE <<generateImage(prompt)>>

\* asset.prompt is truthy
HasPrompt(asset) == Has(asset, "prompt") /\ Truthy(asset.prompt)

\* asset.url || this.generatedAssets.get(key), "" for undefined
urlOf(l, key) ==
  IF Has(l.assets[key], "url") /\ Truthy(l.assets[key].url) THEN l.assets[key].url
  ELSE IF key \in DOMAIN l.generatedAssets THEN l.generatedAssets[key]
  ELSE ""

\* the entries the second loop of loadAll hands to scene.load
ToLoad(l) ==
  {k \in DOMAIN l.assets :
     /\ ~l.assets[k].loaded
     /\ Truthy(urlOf(l, k))
     /\ l.assets[k].type = "spritesheet" => l.assets[k].frameConfig # <<>>}

\* Phaser's addFile drops a file whose type and key are already in the
\* loader, or whose key is taken in the cache of its type
keyExists(l, key, type) ==
  \/ \E f \in l.list : f.key = key /\ f.type = type
  \/ type \in {"image", "spritesheet"} /\ key \in l.textures
  \/ type = "audio" /\ key \in l.audio

\* scene.load.image, .audio and .spritesheet for each of keys
load_add(l, keys) ==
  [l EXCEPT !.list = @ \cup {[key |-> k, type |-> l.assets[k].type, url |-> urlOf(l, k)] :
                               k \in {x \in keys : ~keyExists(l, x, l.assets[x].type)}}]

\* fault injection for C37: the complete handler marks every entry loaded
AssetLoader_onLoadComplete_all(l) ==
  [l EXCEPT !.assets = [k \in DOMAIN @ |-> [@[k] EXCEPT !.loaded = TRUE]]]

AssetLoader_onLoadComplete(l) ==
  [l EXCEPT !.assets = [k \in DOMAIN @ |->
                          IF k \in l.textures \/ k \in l.audio
                            THEN [@[k] EXCEPT !.loaded = TRUE] ELSE @[k]]]

\* fault injection for C35: completeListener resolves and stays registered
completeListener_stays(l) ==
  [l EXCEPT !.calls = [n \in DOMAIN @ |->
                         IF @[n].listener THEN [@[n] EXCEPT !.resolved = @ + 1] ELSE @[n]]]

\* every registered completeListener removes itself and resolves its promise
completeListener(l) ==
  [l EXCEPT !.calls = [n \in DOMAIN @ |->
                         IF @[n].listener
                           THEN [@[n] EXCEPT !.listener = FALSE, !.resolved = @ + 1]
                           ELSE @[n]]]

\* Phaser's loadComplete: the files of ok were fetched and decoded and are in
\* their caches, the list is cleared and 'complete' is emitted
loadComplete(l, ok) ==
  completeListener(AssetLoader_onLoadComplete(
    [l EXCEPT !.textures = @ \cup {f.key : f \in {x \in l.list : x.key \in ok /\ x.type # "audio"}},
              !.audio = @ \cup {f.key : f \in {x \in l.list : x.key \in ok /\ x.type = "audio"}},
              !.list = {},
              !.state = "idle"]))

\* scene.load.start: nothing while a load is running; with no file in the
\* list the load completes at once
load_start(l) ==
  IF l.state = "loading" THEN l
  ELSE IF l.list = {} THEN loadComplete(l, {})
  ELSE [l EXCEPT !.state = "loading"]

\* the entries loadAll generates a url for
ToGenerate(l) == {k \in DOMAIN l.assets : HasPrompt(l.assets[k]) /\ ~l.assets[k].loaded}

\* loadAll from the call to the end of the promise executor
AssetLoader_loadAll(l) ==
  LET gen == ToGenerate(l)
      g == [l EXCEPT !.generatedAssets =
              [k \in {x \in gen : AssetLoader_generateAsset(x, l.assets[x].prompt) # <<>>} |->
                 AssetLoader_generateAsset(k, l.assets[k].prompt)[1]] @@ @]
  IN IF \E k \in gen : AssetLoader_generateAsset(k, l.assets[k].prompt) = <<>>
       THEN [g EXCEPT !.calls = Append(@, [started |-> FALSE, handed |-> {}, listener |-> FALSE,
                                           resolved |-> 0, rejected |-> TRUE])]
     ELSE IF ToLoad(g) = {}
       THEN [g EXCEPT !.calls = Append(@, [started |-> FALSE, handed |-> {}, listener |-> FALSE,
                                           resolved |-> 1, rejected |-> FALSE])]
     ELSE load_start([load_add(g, ToLoad(g))
                        EXCEPT !.calls = Append(@, [started |-> TRUE, handed |-> ToLoad(g),
                                                    listener |-> TRUE, resolved |-> 0,
                                                    rejected |-> FALSE])])

AssetLoader_isLoaded(l, key) == IF key \in DOMAIN l.assets THEN l.assets[key].loaded ELSE FALSE

\* fault injection for C38: getProgress counts the entries whose texture exists
AssetLoader_getProgress_byTexture(l) ==
  LET total == Cardinality(DOMAIN l.assets)
      loaded == Cardinality({k \in DOMAIN l.assets : k \in l.textures})
  IN IF total > 0 THEN <<loaded, total>> ELSE <<1, 1>>

\* getProgress as the fraction <<loaded, total>>, <<1, 1>> for the literal 1
AssetLoader_getProgress(l) ==
  LET total == Cardinality(DOMAIN l.assets)
      loaded == Cardinality({k \in DOMAIN l.assets : l.assets[k].loaded})
  IN IF total > 0 THEN <<loaded, total>> ELSE <<1, 1>>

\* the arguments the queue methods are called with: a frame configuration
\* is passed for spritesheets only
QueueArgs ==
  {a \in [key : LoaderKeys, type : AssetTypes, frameConfig : FrameConfigs] :
     a.type # "spritesheet" => a.frameConfig = <<>>}

QueueAsset(a, prompt) ==
  /\ loader[1].queued < MaxQueue
  /\ loader' = <<[AssetLoader_queueAsset(loader[1], a.key, a.type, prompt, a.frameConfig)
                    EXCEPT !.queued = @ + 1, !.did = "queueAsset"]>>
  /\ UNCHANGED <<cin, cout, backend, mvars>>

QueueAssetWithURL(a, url) ==
  /\ loader[1].queued < MaxQueue
  /\ loader' = <<[AssetLoader_queueAssetWithURL(loader[1], a.key, a.type, url, a.frameConfig)
                    EXCEPT !.queued = @ + 1, !.did = "queueAssetWithURL"]>>
  /\ UNCHANGED <<cin, cout, backend, mvars>>

LoadAll ==
  /\ Len(loader[1].calls) < MaxLoadAll
  /\ loader' = <<[AssetLoader_loadAll(loader[1]) EXCEPT !.did = "loadAll"]>>
  /\ UNCHANGED <<cin, cout, backend, mvars>>

\* the running load of scene.load ends: the files of ok were fetched
LoaderCompletes(ok) ==
  /\ loader[1].state = "loading"
  /\ ok \subseteq {f.key : f \in loader[1].list}
  /\ loader' = <<[loadComplete(loader[1], ok) EXCEPT !.did = "complete"]>>
  /\ UNCHANGED <<cin, cout, backend, mvars>>

\* a scene that has just constructed its AssetLoader; textures of earlier
\* scenes may be in the texture manager
LoaderInit ==
  /\ cin = <<>>
  /\ cout = <<>>
  /\ backend = <<>>
  /\ \E tex \in SUBSET LoaderKeys :
       loader = <<[assets |-> <<>>, generatedAssets |-> <<>>, list |-> {}, state |-> "idle",
                   textures |-> tex, audio |-> {}, calls |-> <<>>, queued |-> 0,
                   did |-> "constructor"]>>
  /\ game = FALSE
  /\ served = FALSE
  /\ reqs = <<>>
  /\ last = NoLast
  /\ localStorage = InitWorld.localStorage
  /\ dom = InitWorld.dom
  /\ phase = InitWorld.phase
  /\ gameData = InitWorld.gameData
  /\ currentSceneId = InitWorld.currentSceneId
  /\ successSceneId = InitWorld.successSceneId
  /\ failureSceneId = InitWorld.failureSceneId
  /\ isGameOver = InitWorld.isGameOver
  /\ assetLoader = InitWorld.assetLoader
  /\ textures = InitWorld.textures
  /\ buttons = InitWorld.buttons
  /\ display = InitWorld.display
  /\ queue = InitWorld.queue
  /\ settings = InitWorld.settings

NextLoader ==
  \/ \E a \in QueueArgs : \E prompt \in LoaderPrompts : QueueAsset(a, prompt)
  \/ \E a \in QueueArgs : \E url \in LoaderURLs : QueueAssetWithURL(a, url)
  \/ LoadAll
  \/ \E ok \in SUBSET LoaderKeys : LoaderCompletes(ok)

SpecLoader == LoaderInit /\ [][NextLoader]_vars

\* no generation is waiting for its answer or for its start delay, the scene
\* manager has nothing queued and no scene is loading assets
Quiet ==
  /\ \A i \in DOMAIN reqs : reqs[i].st \notin {"posted", "timer"}
  /\ queue = <<>>
  /\ \A s \in Scenes : phase[s] \notin {"preload", "loading"}

\* scene s is running
ActiveScene(s) == phase[s] \in {"preload", "loading", "ready"}

\* C33: with nothing in flight, every running scene that holds game data
\* holds an object equal to the one parsed from the 'gameData' item of
\* localStorage, and while the running title scene holds none, no item is
\* stored
C33_MemoryEqualsStorage ==
  Quiet =>
    /\ \A s \in Scenes :
         (ActiveScene(s) /\ gameData[s] # <<>>) =>
           /\ localStorage # <<>>
           /\ Obj(gameData[s][1]) = StoredObject
    /\ (ActiveScene("TitleScene") /\ gameData["TitleScene"] = <<>>) => localStorage = <<>>
\* a generation waits for its answer or for the delayed start of BootScene
InFlight == \E i \in DOMAIN reqs : reqs[i].st \in {"posted", "timer"}

\* C34: the prompt screen and the loading screen are never visible together,
\* and the loading screen is visible only while a generation waits for its
\* answer or for its delayed start; submit leaves the prompt hidden and the
\* loading screen shown, the delayed start leaves the loading screen hidden,
\* and a failed generation and the title's restart leave the prompt shown and
\* the loading screen hidden
C34_OneOverlay ==
  /\ ~(dom.prompt /\ dom.loading)
  /\ dom.loading => InFlight
  /\ last.op = "Submit" => (~dom.prompt /\ dom.loading)
  /\ last.op = "StartGame" => ~dom.loading
  /\ last.op \in {"GenerationFails", "restart"} => (dom.prompt /\ ~dom.loading)

\* one of two overlapping generations has failed and re-shown the prompt
\* while the other still waits
C34_Witness ==
  /\ last.op = "GenerationFails"
  /\ InFlight
  /\ dom.prompt
  /\ ~dom.loading

\* the title's restart has re-shown the prompt
C34_RestartWitness == last.op = "restart" /\ dom.prompt /\ ~dom.loading
\* the loadAll promises of the AssetLoader under test
Calls == loader[1].calls

\* the call made by the step just taken, when that step was loadAll
NewCall == loader'[1].calls[Len(loader'[1].calls)]

\* C35: no loadAll promise is rejected or resolved twice; one that is not
\* resolved yet has its completeListener registered on a running load, whose
\* 'complete' resolves it; a loadAll that hands no file to scene.load resolves
\* within the call and leaves the list and the state of scene.load as they
\* were, any other reaches load.start; after a 'complete' every promise is
\* resolved; a resolved promise has no completeListener registered
C35_ResolvesOnce ==
  /\ [](loader # <<>> =>
          \A n \in DOMAIN Calls :
            /\ ~Calls[n].rejected
            /\ Calls[n].resolved <= 1
            /\ Calls[n].resolved = 0 => (Calls[n].listener /\ Calls[n].started /\ loader[1].state = "loading")
            /\ Calls[n].resolved = 1 => ~Calls[n].listener
            /\ Calls[n].started <=> Calls[n].handed # {}
            /\ loader[1].did = "complete" => Calls[n].resolved = 1)
  /\ [][(loader # <<>> /\ loader'[1].did = "loadAll" /\ Len(loader'[1].calls) > Len(Calls)
           /\ NewCall.handed = {}) =>
          /\ NewCall.resolved = 1
          /\ loader'[1].list = loader[1].list
          /\ loader'[1].state = loader[1].state]_vars

\* a 'complete' has resolved a loadAll that started the loader, after another
\* loadAll with nothing loadable in a non-empty map had resolved at once
C35_Witness ==
  /\ loader # <<>>
  /\ loader[1].did = "complete"
  /\ Len(Calls) = 2
  /\ ~Calls[1].started /\ Calls[1].resolved = 1
  /\ Calls[2].started /\ Calls[2].resolved = 1 /\ ~Calls[2].listener
  /\ \E k \in DOMAIN loader[1].assets :
       loader[1].assets[k].type = "spritesheet" /\ loader[1].assets[k].frameConfig = <<>>
\* the step just taken is a loadAll of the AssetLoader under test
LoadAllStep ==
  /\ loader # <<>>
  /\ loader'[1].did = "loadAll"
  /\ Len(loader'[1].calls) > Len(Calls)

\* what loadAll owes the entry of key k that it found not loaded: a url
\* before the files are handed over, the placeholder when the generation
\* failed, and a place among the files handed to scene.load unless the entry
\* is a spritesheet without frame configuration
Generated(k) ==
  /\ Truthy(urlOf(loader'[1], k))
  /\ generateImage_rejects(loader[1].assets[k].prompt) =>
       loader'[1].generatedAssets[k] = fallbackUrl(k)
  /\ (loader[1].assets[k].type = "spritesheet" => loader[1].assets[k].frameConfig # <<>>) =>
       k \in NewCall.handed

Assets == loader[1].assets

AssetsAfter == loader'[1].assets

\* 'complete' was emitted during the step: by the end of a running load, or
\* inside load.start when the list was empty
CompleteEmitted ==
  \/ loader'[1].did = "complete"
  \/ LoadAllStep /\ NewCall.started /\ NewCall.resolved = 1

\* the step was a queue call
QueueStep ==
  /\ loader # <<>>
  /\ loader'[1].queued > loader[1].queued

\* one key holds a fresh entry that is not loaded and has a prompt or a url,
\* never both; every other entry is as it was
Replaces ==
  \E k \in LoaderKeys :
    /\ DOMAIN AssetsAfter = DOMAIN Assets \cup {k}
    /\ ~AssetsAfter[k].loaded
    /\ Has(AssetsAfter[k], "prompt") # Has(AssetsAfter[k], "url")
    /\ \A j \in DOMAIN Assets \ {k} : AssetsAfter[j] = Assets[j]

\* C37: the entry under a key carries that key and isLoaded is false for a
\* key without entry; a queue call replaces the entry of its key by one that
\* is not loaded and leaves the others; an entry becomes loaded only in a step
\* that emits 'complete' and only if a texture or an audio of its key exists;
\* a step that is not a queue call changes nothing of an entry but its loaded
\* flag, and the end of a load leaves generatedAssets as it was
C37_OneEntryPerKey ==
  /\ [](loader # <<>> =>
          /\ \A k \in DOMAIN Assets : Assets[k].key = k
          /\ \A k \in LoaderKeys \ DOMAIN Assets : ~AssetLoader_isLoaded(loader[1], k))
  /\ [][loader # <<>> =>
          /\ QueueStep => Replaces
          /\ \A k \in DOMAIN AssetsAfter :
               (AssetsAfter[k].loaded /\ ~AssetLoader_isLoaded(loader[1], k)) =>
                 /\ CompleteEmitted
                 /\ k \in loader'[1].textures \cup loader'[1].audio
          /\ ~QueueStep =>
               /\ DOMAIN AssetsAfter = DOMAIN Assets
               /\ \A k \in DOMAIN Assets :
                    [AssetsAfter[k] EXCEPT !.loaded = Assets[k].loaded] = Assets[k]
          /\ loader'[1].did = "complete" => loader'[1].generatedAssets = loader[1].generatedAssets]_vars

\* a load has ended with one entry loaded and another, handed to scene.load
\* by the same loadAll, not loaded
C37_Witness ==
  /\ loader # <<>>
  /\ loader[1].did = "complete"
  /\ \E k, j \in DOMAIN Assets :
       /\ Assets[k].loaded /\ ~Assets[j].loaded
       /\ \E n \in DOMAIN Calls : {k, j} \subseteq Calls[n].handed

\* a queue call has replaced an entry of a key whose texture exists, and the
\* entry is not loaded
C37_RequeuedWitness ==
  /\ loader # <<>>
  /\ loader[1].did \in {"queueAsset", "queueAssetWithURL"}
  /\ \E k \in DOMAIN Assets : k \in loader[1].textures /\ ~Assets[k].loaded
                                 /\ \E n \in DOMAIN Calls : k \in Calls[n].handed
\* what getProgress returns for the AssetLoader under test, as <<loaded, total>>
Progress == AssetLoader_getProgress(loader[1])

\* C38: getProgress is a fraction between 0 and 1; it is 1 when no asset is
\* queued; with at least one asset queued it is the number of entries marked
\* loaded over the number of entries, and it is 1 only if every entry is
\* marked loaded
C38_ProgressInUnit ==
  loader # <<>> =>
    /\ Progress[2] > 0
    /\ 0 <= Progress[1] /\ Progress[1] <= Progress[2]
    /\ DOMAIN Assets = {} => Progress[1] = Progress[2]
    /\ DOMAIN Assets # {} =>
         /\ Progress[2] = Cardinality(DOMAIN Assets)
         /\ Progress[1] = Progress[2] <=> \A k \in DOMAIN Assets : AssetLoader_isLoaded(loader[1], k)

\* a load has ended with one of two entries loaded: getProgress is 1/2 while
\* the textures of both keys exist
C38_Witness ==
  /\ loader # <<>>
  /\ Progress = <<1, 2>>
  /\ DOMAIN Assets \subseteq loader[1].textures

\* a load has ended with both entries loaded: getProgress is 1
C38_FullWitness ==
  /\ loader # <<>>
  /\ loader[1].did = "complete"
  /\ Progress = <<2, 2>>
====
